---- MODULE Spec2Model ----
(***************************************************************************)
(* The form repository (formServerUtils) over the "forms" collection of    *)
(* the document store.                                                     *)
(*                                                                         *)
(* A document and a form field are JavaScript objects: functions from key  *)
(* names to values, a key being absent when it is not in the DOMAIN.       *)
(* Object spread {...a, ...b} is Merge(a, b).                              *)
(*                                                                         *)
(* Every repository operation is an async function.  It is cut at its      *)
(* awaits: one action per call of the document store (getDoc, addDoc,      *)
(* updateDoc, deleteDoc), together with the synchronous code that follows  *)
(* it up to the next await or the return.  Two callers (Procs) run         *)
(* operations concurrently, so steps of different calls interleave.        *)
(*                                                                         *)
(* The document store behaves by its contract: addDoc creates a document   *)
(* under a fresh id, updateDoc replaces the named top-level keys of an     *)
(* existing document and throws when the document is missing, deleteDoc    *)
(* deletes, serverTimestamp() is the server's time at the write.           *)
(***************************************************************************)
EXTENDS Integers, Sequences, FiniteSets, TLC

MaxCalls == 3

Procs == {"p1", "p2"}

VARIABLES
    docs,    \* the "forms" collection: document id -> document data
    clock,   \* server time; every write happens at a later time
    idSeq,   \* ids handed out so far by doc(collection(db, 'forms')).id
    calls,   \* per caller: the repository calls it started so far
    pc,      \* per caller: where its current call stands
    op,      \* per caller: the current call and its arguments
    snap,    \* per caller: docSnap, what the call's first getDoc returned
    loc,     \* per caller: locals computed before the write (updatedFields, updatePayload, parsed)
    res,     \* per caller: the ApiResponse the call returned
    pre,     \* per caller: the stored document just before the call's write
    post,    \* per caller: the stored document just after the call's write
    cand,    \* schema: the value handed to FormSchema.safeParse
    verdict, \* schema: what safeParse returned for it
    lpc,     \* listing client: where its current read stands
    lreq,    \* listing client: the read it asked for (options of getForms, id of getForm)
    lcur,    \* listing client: the startAfter cursor taken from the skip query
    lrows,   \* listing client: querySnapshot, the rows the query returned
    lres,    \* listing client: the ApiResponse of the read
    lids,    \* listing client: the document ids of the forms in that response, in order
    lstart,  \* listing client: the stored documents when the read started
    lpages,  \* listing client: the reads it completed, in order
    forms,          \* client store: the cached list of forms
    selectedForm,   \* client store: Null or the selected form
    selectedFields, \* client store: the ids of the selected fields
    formData,       \* client store: the draft values, field name -> value
    isFormLoading,  \* client store
    formError,      \* client store: Null or the message
    tasks,          \* the asynchronous store actions in flight, each with its request and its reply
    started,        \* the asynchronous store actions started so far
    lastCall        \* the store action that ran last, when it was a selectForm or a resolution

\* the state outside the repository calls of the two callers
schemaVars == <<cand, verdict>>

listVars == <<lpc, lreq, lcur, lrows, lres, lids, lstart, lpages>>

storeVars ==
    <<forms, selectedForm, selectedFields, formData, isFormLoading, formError, tasks, started,
      lastCall>>

beyond == <<schemaVars, listVars, storeVars>>

\* the two callers of the repository
callerVars == <<calls, pc, op, snap, loc, res, pre, post>>

repoVars == <<docs, clock, idSeq, callerVars>>

vars == <<docs, clock, idSeq, calls, pc, op, snap, loc, res, pre, post, beyond>>

-----------------------------------------------------------------------------
(* Objects *)

Empty == <<>>

Merge(a, b) ==
    [k \in (DOMAIN a) \cup (DOMAIN b) |-> IF k \in DOMAIN b THEN b[k] ELSE a[k]]

Without(a, keys) == [k \in (DOMAIN a) \ keys |-> a[k]]

Has(a, k) == k \in DOMAIN a

\* a JavaScript truthy test of an optional string
Truthy(a, k) == Has(a, k) /\ a[k] # ""

-----------------------------------------------------------------------------
(* Schema: FormFieldSchema and FormSchema *)

FieldTypes ==
    {"input", "textarea", "select", "date", "number", "email", "file", "checkbox", "radio"}

FieldKeys ==
    {"id", "name", "label", "type", "required", "placeholder", "options", "position", "validation"}

FormKeys == {"id", "name", "description", "pdfUrl", "fields"}

\* the strings z.string().url() accepts, among the ones the model uses
WellFormedUrls == {"https://x/y.pdf", "https://x/z.pdf"}

IsUrl(s) == s \in WellFormedUrls

ValidField(f) ==
    /\ Has(f, "name") /\ Len(f.name) >= 1
    /\ Has(f, "label") /\ Len(f.label) >= 1
    /\ Has(f, "type") /\ f.type \in FieldTypes
    /\ Has(f, "required") => f.required \in BOOLEAN

\* FormSchema without the url() check of pdfUrl
ValidFormAnyUrl(d) ==
    /\ Has(d, "name") /\ Len(d.name) >= 1
    /\ Has(d, "pdfUrl")
    /\ Has(d, "fields") /\ Len(d.fields) >= 1
    /\ \A i \in DOMAIN d.fields : ValidField(d.fields[i])

ValidForm(d) ==
    /\ Has(d, "name") /\ Len(d.name) >= 1
    /\ Has(d, "pdfUrl") /\ IsUrl(d.pdfUrl)
    /\ Has(d, "fields") /\ Len(d.fields) >= 1
    /\ \A i \in DOMAIN d.fields : ValidField(d.fields[i])

\* parsed.data: z.object drops the keys the schema does not name
StripField(f) == [k \in (DOMAIN f) \cap FieldKeys |-> f[k]]

ParseForm(d) ==
    [k \in (DOMAIN d) \cap FormKeys |->
        IF k = "fields" THEN [i \in DOMAIN d.fields |-> StripField(d.fields[i])]
        ELSE d[k]]

-----------------------------------------------------------------------------
(* Ids *)

GenId(n) == "g" \o ToString(n)

\* how many of fields[1..i] get a generated id
Generated(fields, i) == Cardinality({j \in 1..i : ~Truthy(fields[j], "id")})

\* { ...field, id: field.id || doc(collection(db, 'forms')).id }
WithId(field, n) ==
    Merge(field, [id |-> IF Truthy(field, "id") THEN field.id ELSE GenId(n)])

ensureFieldIds(fields, n) ==
    [i \in DOMAIN fields |-> WithId(fields[i], n + Generated(fields, i))]

\* createForm's map over parsed.data.fields with id: field.id ?? ..., which keeps an empty id
fieldsWithIdsNullish(fields, n) ==
    [i \in DOMAIN fields |->
        IF Has(fields[i], "id") THEN fields[i]
        ELSE Merge(fields[i], [id |-> GenId(n + Generated(fields, i))])]

\* createForm's own map over parsed.data.fields, the same expression as ensureFieldIds
fieldsWithIds(fields, n) ==
    [i \in DOMAIN fields |-> WithId(fields[i], n + Generated(fields, i))]

-----------------------------------------------------------------------------
(* ApiResponse *)

Success(data) == [success |-> TRUE, message |-> "", data |-> data]

Failure(msg) == [success |-> FALSE, message |-> msg, data |-> Empty]

\* docSnap of getDoc(doc(db, 'forms', id))
GetDoc(id) ==
    IF id \in DOMAIN docs THEN [exists |-> TRUE, id |-> id, data |-> docs[id]]
    ELSE [exists |-> FALSE, id |-> id, data |-> Empty]

\* { id: docSnap.id, ...docSnap.data() }: spreading undefined adds nothing
WithDocId(s) == Merge([id |-> s.id], s.data)

Put(id, data) == [k \in (DOMAIN docs) \cup {id} |-> IF k = id THEN data ELSE docs[k]]

Stored(id) == IF id \in DOMAIN docs THEN docs[id] ELSE Empty

-----------------------------------------------------------------------------
(* Callers *)

NoOp == [kind |-> "none", formId |-> "", fieldId |-> "", arg |-> Empty]

NoSnap == [exists |-> FALSE, id |-> "", data |-> Empty]

Calls == calls["p1"] + calls["p2"]

\* the callers are interchangeable: p1 is the one that calls first
Free(p) ==
    /\ pc[p] \in {"idle", "done"}
    /\ Calls < MaxCalls
    /\ p = "p2" => pc["p1"] # "idle"

\* an id no document has
NoSuchId == "missing"

FormIds == (DOMAIN docs) \cup {NoSuchId}

Begin(p, o) ==
    /\ UNCHANGED beyond
    /\ op' = [op EXCEPT ![p] = o]
    /\ calls' = [calls EXCEPT ![p] = @ + 1]
    /\ pre' = [pre EXCEPT ![p] = Empty]
    /\ post' = [post EXCEPT ![p] = Empty]

Return(p, r) ==
    /\ pc' = [pc EXCEPT ![p] = "done"]
    /\ res' = [res EXCEPT ![p] = r]

\* nothing was handed to safeParse
NotParsed == [done |-> FALSE]

SchemaIdle == cand = <<>> /\ verdict = NotParsed

\* no document stored, no call started
RepoInit ==
    /\ docs = Empty
    /\ clock = 0
    /\ idSeq = 0
    /\ calls = [p \in Procs |-> 0]
    /\ pc = [p \in Procs |-> "idle"]
    /\ op = [p \in Procs |-> NoOp]
    /\ snap = [p \in Procs |-> NoSnap]
    /\ loc = [p \in Procs |-> Empty]
    /\ res = [p \in Procs |-> Failure("")]
    /\ pre = [p \in Procs |-> Empty]
    /\ post = [p \in Procs |-> Empty]

NoReq == [kind |-> "none", limit |-> 0, offset |-> 0, id |-> ""]

NoCursor == [set |-> FALSE, at |-> 0]

ListIdle ==
    /\ lpc = "idle"
    /\ lreq = NoReq
    /\ lcur = NoCursor
    /\ lrows = <<>>
    /\ lres = Failure("")
    /\ lids = <<>>
    /\ lstart = Empty
    /\ lpages = <<>>

\* null, and a value that is not null
Null == <<>>

Some(v) == <<v>>

NoCall == [kind |-> "none"]

\* the store as create() builds it
StoreIdle ==
    /\ forms = <<>>
    /\ selectedForm = Null
    /\ selectedFields = <<>>
    /\ formData = Empty
    /\ isFormLoading = FALSE
    /\ formError = Null
    /\ tasks = <<>>
    /\ started = 0
    /\ lastCall = NoCall

Init == RepoInit /\ SchemaIdle /\ ListIdle /\ StoreIdle

-----------------------------------------------------------------------------
(* The inputs callers send *)

Url == "https://x/y.pdf"

FEmail == [name |-> "email", label |-> "Email", type |-> "email", required |-> TRUE]

FAge == [id |-> "f1", name |-> "age", label |-> "Age", type |-> "number"]

\* an empty id and a key the schema does not know
FNote == [id |-> "", name |-> "note", label |-> "Note", type |-> "textarea", extra |-> "x"]

FNoName == [name |-> "", label |-> "X", type |-> "input"]

FBadType == [name |-> "x", label |-> "X", type |-> "bogus"]

FieldInputs == {FEmail, FAge, FNoName}

\* two valid forms, and one form for each rule of FormSchema it breaks
FormInputs ==
    {[name |-> "Intake", pdfUrl |-> Url, fields |-> <<FEmail>>],
     [id |-> "mine", createdAt |-> 0, name |-> "Intake", description |-> "d",
      pdfUrl |-> Url, fields |-> <<FAge, FNote>>],
     [name |-> "", pdfUrl |-> Url, fields |-> <<FEmail>>],
     [name |-> "Intake", pdfUrl |-> "not a url", fields |-> <<FEmail>>],
     [name |-> "Intake", pdfUrl |-> Url, fields |-> <<>>],
     [name |-> "Intake", pdfUrl |-> Url, fields |-> <<FEmail, FBadType>>]}

FormUpdates ==
    {[name |-> "X"], [name |-> ""],
     [id |-> "other", createdAt |-> 0, updatedAt |-> 0, description |-> "new"],
     [fields |-> <<FNote>>], [fields |-> <<>>]}

FieldUpdates == {[required |-> FALSE], [id |-> "other", label |-> "Y"], [name |-> ""]}

Fields(d) == IF Has(d, "fields") THEN d.fields ELSE <<>>

NoSuchField == "nope"

\* a call on an id no document has returns before it reads its payload: one payload is tried
Payloads(id, all, one) == IF id = NoSuchId THEN {one} ELSE all

FieldIds(id) ==
    {Fields(Stored(id))[i].id : i \in {j \in DOMAIN Fields(Stored(id)) : Has(Fields(Stored(id))[j], "id")}}
    \cup {NoSuchField}

-----------------------------------------------------------------------------
(* createForm *)

\* safeParse, ids for the fields, addDoc; or the validation failure
createFormOf(p, input) ==
        /\ Free(p)
        /\ IF ~ValidForm(input)
           THEN /\ Begin(p, [kind |-> "createForm", formId |-> "", fieldId |-> "", arg |-> input])
                /\ Return(p, Failure("Validation failed"))
                /\ UNCHANGED <<docs, clock, idSeq>>
           ELSE LET parsed == ParseForm(input)
                    withIds == fieldsWithIds(parsed.fields, idSeq)
                    used == idSeq + Generated(parsed.fields, Len(parsed.fields))
                    docId == GenId(used + 1)
                    payload == Merge(parsed, [fields |-> withIds,
                                              createdAt |-> clock + 1,
                                              updatedAt |-> clock + 1])
                IN  /\ Begin(p, [kind |-> "createForm", formId |-> docId, fieldId |-> "",
                                 arg |-> input])
                    /\ docs' = Put(docId, payload)
                    /\ clock' = clock + 1
                    /\ idSeq' = used + 1
                    /\ pc' = [pc EXCEPT ![p] = "create_get"]
                    /\ UNCHANGED res
        /\ snap' = [snap EXCEPT ![p] = NoSnap]
        /\ loc' = [loc EXCEPT ![p] = Empty]

createForm(p) == \E input \in FormInputs : createFormOf(p, input)

\* getDoc(docRef) and the return
createFormGet(p) ==
    /\ pc[p] = "create_get"
    /\ snap' = [snap EXCEPT ![p] = GetDoc(op[p].formId)]
    /\ Return(p, Success(Merge([id |-> op[p].formId], GetDoc(op[p].formId).data)))
    /\ UNCHANGED <<docs, clock, idSeq, calls, op, loc, pre, post, beyond>>

-----------------------------------------------------------------------------
(* getForm *)

\* Timestamp.toDate().toISOString(), null without a Timestamp
Iso(raw, k) == IF Has(raw, k) THEN "t" \o ToString(raw[k]) ELSE "null"

getFormResult(s) ==
    IF s.exists
    THEN LET data == Merge(WithDocId(s), [createdAt |-> Iso(s.data, "createdAt"),
                                           updatedAt |-> Iso(s.data, "updatedAt")])
         IN  IF ValidForm(data) THEN Success(ParseForm(data))
             ELSE Failure("Invalid form schema")
    ELSE Failure("Form not found")

\* the ids createForm handed back to its callers: data.id of its response
ReturnedIds ==
    {res[q].data.id : q \in {r \in Procs : op[r].kind = "createForm" /\ pc[r] = "done"
                                            /\ res[r].success /\ Has(res[r].data, "id")}}

getForm(p) ==
    \E id \in FormIds \cup ReturnedIds :
        /\ Free(p)
        /\ Begin(p, [kind |-> "getForm", formId |-> id, fieldId |-> "", arg |-> Empty])
        /\ snap' = [snap EXCEPT ![p] = GetDoc(id)]
        /\ Return(p, getFormResult(GetDoc(id)))
        /\ loc' = [loc EXCEPT ![p] = Empty]
        /\ UNCHANGED <<docs, clock, idSeq>>

-----------------------------------------------------------------------------
(* updateForm *)

\* const { id, createdAt, ...allowedUpdates } = updateData, and the ids of its fields;
\* updatedAt is serverTimestamp(), set by the write
\* updatePayload that takes only id out of updateData: a createdAt of the caller is written
updatePayloadWithCreatedAt(updateData, n) ==
    LET allowed == Without(updateData, {"id", "updatedAt"})
    IN  IF Has(allowed, "fields")
        THEN Merge(allowed, [fields |-> ensureFieldIds(allowed.fields, n)])
        ELSE allowed

updatePayload(updateData, n) ==
    LET allowed == Without(updateData, {"id", "createdAt", "updatedAt"})
    IN  IF Has(allowed, "fields")
        THEN Merge(allowed, [fields |-> ensureFieldIds(allowed.fields, n)])
        ELSE allowed

\* what updateForm hands to safeParse
\* safeParse handed the stored document alone, without the update
updateMergedStoredOnly(stored, payload, formId) == Merge(stored, [id |-> formId])

updateMerged(stored, payload, formId) == Merge(Merge(stored, payload), [id |-> formId])

\* getDoc, the merge and its validation
updateForm(p) ==
    \E id \in FormIds :
      \E updateData \in Payloads(id, FormUpdates, [name |-> "X"]) :
        /\ Free(p)
        /\ Begin(p, [kind |-> "updateForm", formId |-> id, fieldId |-> "", arg |-> updateData])
        /\ snap' = [snap EXCEPT ![p] = GetDoc(id)]
        /\ UNCHANGED <<docs, clock>>
        /\ IF ~GetDoc(id).exists
           THEN /\ Return(p, Failure("Form not found"))
                /\ loc' = [loc EXCEPT ![p] = Empty]
                /\ UNCHANGED idSeq
           ELSE LET payload == updatePayload(updateData, idSeq)
                    merged == updateMerged(docs[id], payload, id)
                IN  /\ idSeq' = idSeq + Generated(Fields(updateData), Len(Fields(updateData)))
                    /\ IF ~ValidForm(merged)
                       THEN /\ Return(p, Failure("Validation failed"))
                            /\ loc' = [loc EXCEPT ![p] = Empty]
                       ELSE /\ pc' = [pc EXCEPT ![p] = "update_write"]
                            /\ loc' = [loc EXCEPT ![p] =
                                          [payload |-> payload, parsed |-> ParseForm(merged)]]
                            /\ UNCHANGED res

\* updateDoc(docRef, updatePayload): the named keys replace the stored ones
updateFormWrite(p) ==
    LET id == op[p].formId IN
    /\ pc[p] = "update_write"
    /\ IF id \in DOMAIN docs
       THEN /\ docs' = Put(id, Merge(docs[id], Merge(loc[p].payload, [updatedAt |-> clock + 1])))
            /\ clock' = clock + 1
            /\ pre' = [pre EXCEPT ![p] = docs[id]]
            /\ post' = [post EXCEPT ![p] = docs'[id]]
            /\ Return(p, Success(loc[p].parsed))
       ELSE /\ Return(p, Failure("Failed to update form"))
            /\ UNCHANGED <<docs, clock, pre, post>>
    /\ UNCHANGED <<idSeq, calls, op, snap, loc, beyond>>

-----------------------------------------------------------------------------
(* deleteForm *)

deleteForm(p) ==
    \E id \in FormIds :
        /\ Free(p)
        /\ Begin(p, [kind |-> "deleteForm", formId |-> id, fieldId |-> "", arg |-> Empty])
        /\ snap' = [snap EXCEPT ![p] = GetDoc(id)]
        /\ loc' = [loc EXCEPT ![p] = Empty]
        /\ IF ~GetDoc(id).exists
           THEN Return(p, Failure("Form not found"))
           ELSE pc' = [pc EXCEPT ![p] = "delete_write"] /\ UNCHANGED res
        /\ UNCHANGED <<docs, clock, idSeq>>

\* deleteDoc(docRef): deleting a missing document is no error
\* a deleteDoc that reports success and deletes nothing
deleteFormWriteKeeps(p) ==
    LET id == op[p].formId IN
    /\ pc[p] = "delete_write"
    /\ docs' = docs
    /\ pre' = [pre EXCEPT ![p] = Stored(id)]
    /\ Return(p, [success |-> TRUE, message |-> "Form deleted successfully", data |-> Empty])
    /\ UNCHANGED <<clock, idSeq, calls, op, snap, loc, post, beyond>>

deleteFormWrite(p) ==
    LET id == op[p].formId IN
    /\ pc[p] = "delete_write"
    /\ docs' = [k \in (DOMAIN docs) \ {id} |-> docs[k]]
    /\ pre' = [pre EXCEPT ![p] = Stored(id)]
    /\ Return(p, [success |-> TRUE, message |-> "Form deleted successfully", data |-> Empty])
    /\ UNCHANGED <<clock, idSeq, calls, op, snap, loc, post, beyond>>

-----------------------------------------------------------------------------
(* addField, updateField, removeField: read, modify, write, read again *)

\* updateDoc(docRef, { fields: updatedFields, updatedAt: serverTimestamp() }),
\* which throws when the document is gone; failed is the message of the catch
\* the write of addField as an atomic append to the fields stored at the write
fieldsWriteAtomic(p, next, failed) ==
    LET id == op[p].formId IN
    /\ IF id \in DOMAIN docs
       THEN /\ docs' = Put(id, Merge(docs[id],
                            [fields |-> IF Has(loc[p], "field")
                                        THEN Append(Fields(docs[id]), loc[p].field)
                                        ELSE loc[p].fields,
                             updatedAt |-> clock + 1]))
            /\ clock' = clock + 1
            /\ pre' = [pre EXCEPT ![p] = docs[id]]
            /\ post' = [post EXCEPT ![p] = docs'[id]]
            /\ pc' = [pc EXCEPT ![p] = next]
            /\ UNCHANGED res
       ELSE /\ Return(p, Failure(failed))
            /\ UNCHANGED <<docs, clock, pre, post>>
    /\ UNCHANGED <<idSeq, calls, op, snap, loc, beyond>>

\* the write without updatedAt: updateDoc(docRef, { fields: updatedFields })
fieldsWriteNoStamp(p, next, failed) ==
    LET id == op[p].formId IN
    /\ IF id \in DOMAIN docs
       THEN /\ docs' = Put(id, Merge(docs[id], [fields |-> loc[p].fields]))
            /\ clock' = clock + 1
            /\ pre' = [pre EXCEPT ![p] = docs[id]]
            /\ post' = [post EXCEPT ![p] = docs'[id]]
            /\ pc' = [pc EXCEPT ![p] = next]
            /\ UNCHANGED res
       ELSE /\ Return(p, Failure(failed))
            /\ UNCHANGED <<docs, clock, pre, post>>
    /\ UNCHANGED <<idSeq, calls, op, snap, loc, beyond>>

fieldsWrite(p, next, failed) ==
    LET id == op[p].formId IN
    /\ IF id \in DOMAIN docs
       THEN /\ docs' = Put(id, Merge(docs[id], [fields |-> loc[p].fields,
                                                 updatedAt |-> clock + 1]))
            /\ clock' = clock + 1
            /\ pre' = [pre EXCEPT ![p] = docs[id]]
            /\ post' = [post EXCEPT ![p] = docs'[id]]
            /\ pc' = [pc EXCEPT ![p] = next]
            /\ UNCHANGED res
       ELSE /\ Return(p, Failure(failed))
            /\ UNCHANGED <<docs, clock, pre, post>>
    /\ UNCHANGED <<idSeq, calls, op, snap, loc, beyond>>

\* updatedDoc = getDoc(docRef); return { id: updatedDoc.id, ...updatedDoc.data() }
fieldsGet(p) ==
    /\ Return(p, Success(WithDocId(GetDoc(op[p].formId))))
    /\ UNCHANGED <<docs, clock, idSeq, calls, op, snap, loc, pre, post, beyond>>

\* [...currentFields, fieldWithId]
\* [fieldWithId, ...currentFields]
prependField(currentFields, fieldWithId) == <<fieldWithId>> \o currentFields

appendField(currentFields, fieldWithId) == Append(currentFields, fieldWithId)

addField(p) ==
    \E id \in FormIds :
      \E field \in Payloads(id, FieldInputs, FEmail) :
        /\ Free(p)
        /\ Begin(p, [kind |-> "addField", formId |-> id, fieldId |-> "", arg |-> field])
        /\ snap' = [snap EXCEPT ![p] = GetDoc(id)]
        /\ UNCHANGED <<docs, clock>>
        /\ IF ~GetDoc(id).exists
           THEN /\ Return(p, Failure("Form not found"))
                /\ loc' = [loc EXCEPT ![p] = Empty]
                /\ UNCHANGED idSeq
           ELSE LET fieldWithId == WithId(field, idSeq + 1)
                IN  /\ loc' = [loc EXCEPT ![p] =
                                  [field |-> fieldWithId,
                                   fields |-> appendField(Fields(docs[id]), fieldWithId)]]
                    /\ idSeq' = IF Truthy(field, "id") THEN idSeq ELSE idSeq + 1
                    /\ pc' = [pc EXCEPT ![p] = "add_write"]
                    /\ UNCHANGED res

addFieldWrite(p) == pc[p] = "add_write" /\ fieldsWrite(p, "add_get", "Failed to add field")

addFieldGet(p) == pc[p] = "add_get" /\ fieldsGet(p)

\* currentFields.findIndex(field => field.id === fieldId), 0 for -1
\* findIndex that answers the first field when none has the id
findIndexOrFirst(fields, fieldId) ==
    LET hits == {i \in DOMAIN fields : Has(fields[i], "id") /\ fields[i].id = fieldId}
    IN  IF hits = {} THEN (IF fields = <<>> THEN 0 ELSE 1)
        ELSE CHOOSE i \in hits : \A j \in hits : i <= j

findIndex(fields, fieldId) ==
    LET hits == {i \in DOMAIN fields : Has(fields[i], "id") /\ fields[i].id = fieldId}
    IN  IF hits = {} THEN 0 ELSE CHOOSE i \in hits : \A j \in hits : i <= j

\* { ...updatedFields[fieldIndex], ...fieldUpdates, id: fieldId }
\* { ...updatedFields[fieldIndex], id: fieldId, ...fieldUpdates }: the update's id wins
updatedFieldIdFirst(field, fieldUpdates, fieldId) ==
    Merge(Merge(field, [id |-> fieldId]), fieldUpdates)

updatedField(field, fieldUpdates, fieldId) ==
    Merge(Merge(field, fieldUpdates), [id |-> fieldId])

updateField(p) ==
    \E id \in FormIds :
      \E fieldUpdates \in Payloads(id, FieldUpdates, [required |-> FALSE]), fieldId \in FieldIds(id) :
        /\ Free(p)
        /\ Begin(p, [kind |-> "updateField", formId |-> id, fieldId |-> fieldId,
                     arg |-> fieldUpdates])
        /\ snap' = [snap EXCEPT ![p] = GetDoc(id)]
        /\ UNCHANGED <<docs, clock, idSeq>>
        /\ IF ~GetDoc(id).exists
           THEN /\ Return(p, Failure("Form not found"))
                /\ loc' = [loc EXCEPT ![p] = Empty]
           ELSE LET currentFields == Fields(docs[id])
                    fieldIndex == findIndex(currentFields, fieldId)
                IN  IF fieldIndex = 0
                    THEN /\ Return(p, Failure("Field not found"))
                         /\ loc' = [loc EXCEPT ![p] = Empty]
                    ELSE /\ loc' = [loc EXCEPT ![p] =
                                  [index |-> fieldIndex,
                                   fields |-> [currentFields EXCEPT ![fieldIndex] =
                                                 updatedField(@, fieldUpdates, fieldId)]]]
                         /\ pc' = [pc EXCEPT ![p] = "updf_write"]
                         /\ UNCHANGED res

updateFieldWrite(p) ==
    pc[p] = "updf_write" /\ fieldsWrite(p, "updf_get", "Failed to update field")

updateFieldGet(p) == pc[p] = "updf_get" /\ fieldsGet(p)

\* currentFields.filter(field => field.id !== fieldId)
filterOut(fields, fieldId) ==
    SelectSeq(fields, LAMBDA f : ~(Has(f, "id") /\ f.id = fieldId))

removeField(p) ==
    \E id \in FormIds :
      \E fieldId \in FieldIds(id) :
        /\ Free(p)
        /\ Begin(p, [kind |-> "removeField", formId |-> id, fieldId |-> fieldId,
                     arg |-> Empty])
        /\ snap' = [snap EXCEPT ![p] = GetDoc(id)]
        /\ UNCHANGED <<docs, clock, idSeq>>
        /\ IF ~GetDoc(id).exists
           THEN /\ Return(p, Failure("Form not found"))
                /\ loc' = [loc EXCEPT ![p] = Empty]
           ELSE /\ loc' = [loc EXCEPT ![p] =
                              [fields |-> filterOut(Fields(docs[id]), fieldId)]]
                /\ pc' = [pc EXCEPT ![p] = "remf_write"]
                /\ UNCHANGED res

removeFieldWrite(p) ==
    pc[p] = "remf_write" /\ fieldsWrite(p, "remf_get", "Failed to remove field")

removeFieldGet(p) == pc[p] = "remf_get" /\ fieldsGet(p)

-----------------------------------------------------------------------------

Next ==
    \E p \in Procs :
        \/ createForm(p)
        \/ createFormGet(p)
        \/ getForm(p)
        \/ updateForm(p)
        \/ updateFormWrite(p)
        \/ deleteForm(p)
        \/ deleteFormWrite(p)
        \/ addField(p)
        \/ addFieldWrite(p)
        \/ addFieldGet(p)
        \/ updateField(p)
        \/ updateFieldWrite(p)
        \/ updateFieldGet(p)
        \/ removeField(p)
        \/ removeFieldWrite(p)
        \/ removeFieldGet(p)

Spec == Init /\ [][Next]_vars

-----------------------------------------------------------------------------
(* FormSchema.safeParse as a function of its input *)

\* the strings tried as a name or a label: empty, blanks only, and with text
Texts == {"", " ", "  ", "Intake"}

FormCandidates ==
    {[name |-> n, pdfUrl |-> Url, fields |-> <<[name |-> fn, label |-> fl, type |-> "input"]>>] :
        n \in Texts, fn \in Texts, fl \in Texts}

InitSchema ==
    /\ RepoInit
    /\ cand \in FormCandidates
    /\ verdict = NotParsed
    /\ ListIdle
    /\ StoreIdle

safeParse ==
    /\ ~verdict.done
    /\ verdict' = IF ValidForm(cand)
                  THEN [done |-> TRUE, success |-> TRUE, data |-> ParseForm(cand)]
                  ELSE [done |-> TRUE, success |-> FALSE, data |-> Empty]
    /\ UNCHANGED <<cand, repoVars, listVars, storeVars>>

NextSchema == safeParse

SpecSchema == InitSchema /\ [][NextSchema]_vars

-----------------------------------------------------------------------------
(* Reading: getForms, and getForm and getForms of the earlier variant of    *)
(* the repository.  A listing client reads while a caller writes; the reads *)
(* are cut at their awaits like the writes.                                 *)

MaxPages == 2

\* options.limit || 10
DefaultLimit == 10

\* the limit and offset values a request carries; 0 is also what a missing value gives
ListLimits == {0, 1, 2}

ListOffsets == {0, 1, 2}

Min(a, b) == IF a <= b THEN a ELSE b

\* orderBy("createdAt", "desc"): the ids of the documents, newest first
OrderDesc(D) ==
    LET n == Cardinality(DOMAIN D)
    IN  IF n = 0 THEN <<>>
        ELSE CHOOSE s \in [1..n -> DOMAIN D] :
                \A i, j \in 1..n : i < j => D[s[i]].createdAt > D[s[j]].createdAt

\* getDocs(query(baseQuery, orderBy("createdAt", "desc"), startAfter(cursor), limit(n)))
Rows(cursor, n) ==
    LET after == SelectSeq(OrderDesc(docs),
                           LAMBDA id : ~cursor.set \/ docs[id].createdAt < cursor.at)
    IN  [i \in 1..Min(n, Len(after)) |-> [exists |-> TRUE, id |-> after[i], data |-> docs[after[i]]]]

\* the rows whose document passes safeParse, as getForms reads them
ValidRows(rows) == SelectSeq(rows, LAMBDA r : getFormResult(r).success)

\* forms.push(parsed.data) for every row that parses
FormsOf(rows) == [i \in DOMAIN ValidRows(rows) |-> getFormResult(ValidRows(rows)[i]).data]

RowIds(rows) == [i \in DOMAIN rows |-> rows[i].id]

\* a limit that ignores options.limit
limitValueDefault(options) == DefaultLimit

limitValue(options) == IF options.limit # 0 THEN options.limit ELSE DefaultLimit

\* a client reads any page first, and then the page that follows the one it got
PageRequests(kind) ==
    IF lpages = <<>>
    THEN {[kind |-> kind, limit |-> l, offset |-> o, id |-> ""] : l \in ListLimits, o \in ListOffsets}
    ELSE LET last == lpages[Len(lpages)].req
         IN  IF last.kind = kind /\ last.limit >= 1
             THEN {[kind |-> kind, limit |-> last.limit, offset |-> last.offset + last.limit,
                    id |-> ""]}
             ELSE {}

ListFree == lpc \in {"idle", "done"} /\ Len(lpages) < MaxPages

\* the skip query and its cursor when offset > 0, else the query itself
getForms ==
    \E options \in PageRequests("getForms") :
        /\ ListFree
        /\ lreq' = options
        /\ lstart' = docs
        /\ IF options.offset > 0
           THEN LET skipSnapshot == Rows(NoCursor, options.offset)
                IN  /\ lcur' = IF Len(skipSnapshot) > 0
                               THEN [set |-> TRUE,
                                     at |-> skipSnapshot[Len(skipSnapshot)].data.createdAt]
                               ELSE NoCursor
                    /\ lrows' = <<>>
                    /\ lpc' = "query"
           ELSE /\ lcur' = NoCursor
                /\ lrows' = Rows(NoCursor, limitValue(options))
                /\ lpc' = "count"
        /\ UNCHANGED <<lres, lids, lpages, repoVars, schemaVars, storeVars>>

\* getDocs(q) after the skip query
getFormsQuery ==
    /\ lpc = "query"
    /\ lrows' = Rows(lcur, limitValue(lreq))
    /\ lpc' = "count"
    /\ UNCHANGED <<lreq, lcur, lres, lids, lstart, lpages, repoVars, schemaVars, storeVars>>

\* getCountFromServer(baseQuery) and the return
getFormsCount ==
    /\ lpc = "count"
    /\ lres' = Success([forms |-> FormsOf(lrows), total |-> Cardinality(DOMAIN docs)])
    /\ lids' = RowIds(ValidRows(lrows))
    /\ lpages' = Append(lpages, [req |-> lreq, ids |-> lids', start |-> lstart])
    /\ lpc' = "done"
    /\ UNCHANGED <<lreq, lcur, lrows, lstart, repoVars, schemaVars, storeVars>>

\* earlier variant: FormSchema.safeParse({ id: d.id, ...d.data() })
ValidRowsEarlier(rows) == SelectSeq(rows, LAMBDA r : ValidForm(WithDocId(r)))

\* forms.slice(offset, offset + (options.limit || 10))
slice(all, options) ==
    SubSeq(all, options.offset + 1, Min(options.offset + limitValue(options), Len(all)))

\* earlier variant: limit(options.limit) when a limit is given, then getDocs
getFormsEarlier ==
    \E options \in PageRequests("getFormsEarlier") :
        /\ ListFree
        /\ lreq' = options
        /\ lstart' = docs
        /\ lcur' = NoCursor
        /\ lrows' = Rows(NoCursor, IF options.limit # 0 THEN options.limit
                                   ELSE Cardinality(DOMAIN docs))
        /\ lpc' = "count_earlier"
        /\ UNCHANGED <<lres, lids, lpages, repoVars, schemaVars, storeVars>>

\* earlier variant: the slice, getCountFromServer and the return
getFormsEarlierCount ==
    /\ lpc = "count_earlier"
    /\ LET paginated == slice(ValidRowsEarlier(lrows), lreq)
       IN  /\ lres' = Success([forms |-> [i \in DOMAIN paginated |->
                                             ParseForm(WithDocId(paginated[i]))],
                                total |-> Cardinality(DOMAIN docs)])
           /\ lids' = RowIds(paginated)
    /\ lpages' = Append(lpages, [req |-> lreq, ids |-> lids', start |-> lstart])
    /\ lpc' = "done"
    /\ UNCHANGED <<lreq, lcur, lrows, lstart, repoVars, schemaVars, storeVars>>

\* earlier variant of getForm
getFormEarlierResult(s) ==
    IF s.exists THEN [success |-> FALSE, message |-> "", data |-> s.data]
    ELSE Failure("Failed to fetch form")

getFormEarlier ==
    \E id \in FormIds :
        /\ ListFree
        /\ lpages = <<>>
        /\ lreq' = [kind |-> "getFormEarlier", limit |-> 0, offset |-> 0, id |-> id]
        /\ lstart' = docs
        /\ lrows' = <<GetDoc(id)>>
        /\ lres' = getFormEarlierResult(GetDoc(id))
        /\ lids' = <<>>
        /\ lpages' = Append(lpages, [req |-> lreq', ids |-> <<>>, start |-> docs])
        /\ lpc' = "done"
        /\ UNCHANGED <<lcur, repoVars, schemaVars, storeVars>>

\* the caller that writes while the client reads
Writer == "p1"

\* the forms the writer creates while the client reads
ListedForms == {[name |-> "Intake", pdfUrl |-> Url, fields |-> <<FEmail>>]}

createListed == \E input \in ListedForms : createFormOf(Writer, input)

NextRead ==
    \/ createListed
    \/ createFormGet(Writer)
    \/ getForm(Writer)
    \/ removeField(Writer)
    \/ removeFieldWrite(Writer)
    \/ removeFieldGet(Writer)
    \/ getForms
    \/ getFormsQuery
    \/ getFormsCount
    \/ getFormsEarlier
    \/ getFormsEarlierCount
    \/ getFormEarlier

SpecRead == Init /\ [][NextRead]_vars

-----------------------------------------------------------------------------
(* The client: the store (useFormStore) over the transport (FormService),   *)
(* the request handler and the repository.  An asynchronous store action    *)
(* is cut at its await: it starts (its set() and the request), the server   *)
(* handles the request, and the action resolves (the transport's checks and *)
(* the store's set() or catch).  Actions in flight resolve in any order.    *)
(* The server handles one request in one step: the interleavings inside the *)
(* repository calls are those of Spec.                                      *)

MaxActions == 3

\* a repository call run from its first read to its return: the response and the store after it
Served(r, d, n, t) == [res |-> r, docs |-> d, idSeq |-> n, clock |-> t]

serveCreateForm(input) ==
    IF ~ValidForm(input) THEN Served(Failure("Validation failed"), docs, idSeq, clock)
    ELSE LET data == ParseForm(input)
             withIds == fieldsWithIds(data.fields, idSeq)
             used == idSeq + Generated(data.fields, Len(data.fields))
             docId == GenId(used + 1)
             payload == Merge(data, [fields |-> withIds, createdAt |-> clock + 1,
                                     updatedAt |-> clock + 1])
         IN  Served(Success(Merge([id |-> docId], payload)), Put(docId, payload),
                    used + 1, clock + 1)

serveUpdateForm(id, updateData) ==
    IF id \notin DOMAIN docs THEN Served(Failure("Form not found"), docs, idSeq, clock)
    ELSE LET payload == updatePayload(updateData, idSeq)
             merged == updateMerged(docs[id], payload, id)
             used == idSeq + Generated(Fields(updateData), Len(Fields(updateData)))
         IN  IF ~ValidForm(merged)
             THEN Served(Failure("Validation failed"), docs, used, clock)
             ELSE Served(Success(ParseForm(merged)),
                         Put(id, Merge(docs[id], Merge(payload, [updatedAt |-> clock + 1]))),
                         used, clock + 1)

serveDeleteForm(id) ==
    IF id \notin DOMAIN docs THEN Served(Failure("Form not found"), docs, idSeq, clock)
    ELSE Served([success |-> TRUE, message |-> "Form deleted successfully", data |-> Empty],
                [k \in (DOMAIN docs) \ {id} |-> docs[k]], idSeq, clock)

serveGetForm(id) == Served(getFormResult(GetDoc(id)), docs, idSeq, clock)

\* getForms with no write between its queries
serveGetForms(options) ==
    LET skipSnapshot == Rows(NoCursor, options.offset)
        cursor == IF options.offset > 0 /\ Len(skipSnapshot) > 0
                  THEN [set |-> TRUE, at |-> skipSnapshot[Len(skipSnapshot)].data.createdAt]
                  ELSE NoCursor
        querySnapshot == Rows(cursor, limitValue(options))
    IN  Served(Success([forms |-> FormsOf(querySnapshot), total |-> Cardinality(DOMAIN docs)]),
               docs, idSeq, clock)

\* a request of the transport: the method, the query parameters and the body
Request(method, id, action, fieldId, body) ==
    [method |-> method, id |-> id, action |-> action, fieldId |-> fieldId, body |-> body]

\* GET ?limit=..&offset=..
ListRequest(limit, offset) ==
    Merge(Request("GET", "", "", "", Empty), [limit |-> limit, offset |-> offset])

\* what the handler answers: the status and the JSON it sends first, the repository
\* operation it called, what that one returned and the store it left
Reply(status, json, called, served) ==
    [status |-> status, json |-> json, called |-> called, served |-> served]

\* the reply as the client holds it, with the repository's response behind it
Received(reply) ==
    [status |-> reply.status, json |-> reply.json, called |-> reply.called,
     result |-> reply.served.res]

\* a POST that answers 201 whatever createForm returned
createdStatusAlways(result) == 201

\* res.status(result.success ? 201 : 404)
createdStatus(result) == IF result.success THEN 201 ELSE 404

\* switch (req.method): the handler looks at the method and at id, and for a list at limit
\* and offset.  The POST case has no return and runs on into the GET case, whose
\* res.json() comes after the response of the POST case was sent: the client holds the
\* first one.  getForm and updateForm and deleteForm return an object, never a falsy
\* value, so the 404 branches after them are not taken.
handler(req) ==
    CASE req.method = "POST" ->
            LET result == serveCreateForm(req.body)
            IN  Reply(createdStatus(result.res), result.res, "createForm", result)
      [] req.method = "GET" ->
            IF req.id # ""
            THEN LET form == serveGetForm(req.id)
                 IN  Reply(200, form.res, "getForm", form)
            ELSE LET found == serveGetForms([limit |-> req.limit, offset |-> req.offset])
                 IN  Reply(200, found.res, "getForms", found)
      [] req.method = "PUT" ->
            IF req.id = ""
            THEN Reply(400, [error |-> "Form ID is required"], "none",
                       Served(Failure(""), docs, idSeq, clock))
            ELSE LET result == serveUpdateForm(req.id, req.body)
                 IN  Reply(200, result.res, "updateForm", result)
      [] req.method = "DELETE" ->
            IF req.id = ""
            THEN Reply(400, [error |-> "Form ID is required"], "none",
                       Served(Failure(""), docs, idSeq, clock))
            ELSE LET success == serveDeleteForm(req.id)
                 IN  Reply(200, [message |-> "Form deleted successfully"], "deleteForm", success)
      [] OTHER ->
            Reply(405, [error |-> "Method not allowed"], "none",
                  Served(Failure(""), docs, idSeq, clock))

\* what one invocation of the handler runs: the cases of the switch it enters and the
\* repository operations it calls, in order.  The POST case ends without return or break.
invocation(req) ==
    LET read == IF req.id # "" THEN "getForm" ELSE "getForms"
    IN  CASE req.method = "POST" -> [cases |-> <<"POST", "GET">>, calls |-> <<"createForm", read>>]
          [] req.method = "GET" -> [cases |-> <<"GET">>, calls |-> <<read>>]
          [] req.method = "PUT" ->
                [cases |-> <<"PUT">>, calls |-> IF req.id = "" THEN <<>> ELSE <<"updateForm">>]
          [] req.method = "DELETE" ->
                [cases |-> <<"DELETE">>, calls |-> IF req.id = "" THEN <<>> ELSE <<"deleteForm">>]
          [] OTHER -> [cases |-> <<"default">>, calls |-> <<>>]

\* FormService: the value the call resolves to, or the message of the Error it throws.
\* A status outside 2xx makes axios throw, handleError takes the message of the body.
Resolved(data) == [ok |-> TRUE, message |-> "", data |-> data]

Thrown(message) == [ok |-> FALSE, message |-> message, data |-> Empty]

handleError(reply) ==
    Thrown(IF Truthy(reply.json, "message") THEN reply.json.message
           ELSE IF reply.status = 0 THEN "timeout of 8000ms exceeded"
           ELSE "Request failed with status code " \o ToString(reply.status))

\* if (!data.success || !data.data) throw new Error(data.message || fallback); return data.data
checked(reply, fallback) ==
    IF reply.status \notin 200..299 THEN handleError(reply)
    ELSE IF Has(reply.json, "success") /\ reply.json.success /\ Has(reply.json, "data")
         THEN Resolved(reply.json.data)
         ELSE Thrown(IF Truthy(reply.json, "message") THEN reply.json.message ELSE fallback)

\* FormService.deleteForm: await api.delete(...), nothing of the body is looked at
unchecked(reply) ==
    IF reply.status \notin 200..299 THEN handleError(reply) ELSE Resolved(Empty)

NoReply == Received(Reply(0, Empty, "none", Served(Failure(""), Empty, 0, 0)))

\* form.fields.map(f => f.id), as a set
FieldIdsOf(form) ==
    {Fields(form)[i].id : i \in {j \in DOMAIN Fields(form) : Has(Fields(form)[j], "id")}}

\* the ids of the cached forms, and the field ids of the cached form with an id
CachedIds == {forms[i].id : i \in DOMAIN forms}

CachedFieldIds(id) ==
    UNION {FieldIdsOf(forms[i]) : i \in {j \in DOMAIN forms : forms[j].id = id}}

StoreFree == started < MaxActions

\* the action starts: the request is sent, the action is in flight
Sent(kind, req) ==
    /\ StoreFree
    /\ tasks' = Append(tasks, [kind |-> kind, req |-> req, stage |-> "sent", reply |-> NoReply])
    /\ started' = started + 1
    /\ lastCall' = NoCall
    /\ UNCHANGED <<repoVars, schemaVars, listVars>>

\* the server handles the request of an action in flight
serve ==
    \E t \in DOMAIN tasks :
        /\ tasks[t].stage = "sent"
        /\ LET reply == handler(tasks[t].req)
           IN  /\ tasks' = [tasks EXCEPT ![t].stage = "answered", ![t].reply = Received(reply)]
               /\ docs' = reply.served.docs
               /\ idSeq' = reply.served.idSeq
               /\ clock' = reply.served.clock
        /\ lastCall' = NoCall
        /\ UNCHANGED <<forms, selectedForm, selectedFields, formData, isFormLoading, formError,
                       started, callerVars, schemaVars, listVars>>

\* no response within the timeout of the transport: axios throws, the server never
\* handled the request
timeout ==
    \E t \in DOMAIN tasks :
        /\ tasks[t].stage = "sent"
        /\ tasks' = [tasks EXCEPT ![t].stage = "answered"]
        /\ lastCall' = NoCall
        /\ UNCHANGED <<forms, selectedForm, selectedFields, formData, isFormLoading, formError,
                       started, repoVars, schemaVars, listVars>>

\* the reply of action t of this kind arrived: the action leaves the ones in flight with
\* the transport's outcome, and its promise rejects or resolves
Settled(t, kind, outcome, rejects) ==
    /\ tasks[t].stage = "answered"
    /\ tasks[t].kind = kind
    /\ tasks' = [i \in 1..(Len(tasks) - 1) |-> IF i < t THEN tasks[i] ELSE tasks[i + 1]]
    /\ lastCall' = [kind |-> kind, task |-> tasks[t], outcome |-> outcome, rejects |-> rejects]
    /\ UNCHANGED <<started, repoVars, schemaVars, listVars>>

\* an action whose catch ends with throw formError
Arrived(t, kind, outcome) == Settled(t, kind, outcome, ~outcome.ok)

\* state.forms.map((form) => form.id === id ? updatedForm : form)
replaced(id, updatedForm) ==
    [i \in DOMAIN forms |-> IF forms[i].id = id THEN updatedForm ELSE forms[i]]

\* a selectedForm that is never exchanged: the selection keeps the form it held
reselectedStale(id, updatedForm) == selectedForm

\* state.selectedForm?.id === id ? updatedForm : state.selectedForm
reselected(id, updatedForm) ==
    IF selectedForm # Null /\ selectedForm[1].id = id THEN updatedForm ELSE selectedForm

storeLoadForms ==
    /\ Sent("loadForms", ListRequest(DefaultLimit, 0))
    /\ isFormLoading' = TRUE
    /\ formError' = Null
    /\ UNCHANGED <<forms, selectedForm, selectedFields, formData>>

\* the catch of loadForms stores the message and does not throw
storeLoadFormsDone ==
    \E t \in DOMAIN tasks :
        LET data == checked(tasks[t].reply, "Failed to fetch forms")
        IN  /\ Settled(t, "loadForms", data, FALSE)
            /\ IF data.ok
               THEN /\ forms' = data.data.forms
                    /\ isFormLoading' = FALSE
                    /\ UNCHANGED formError
               ELSE /\ formError' = Some(data.message)
                    /\ isFormLoading' = FALSE
                    /\ UNCHANGED forms
            /\ UNCHANGED <<selectedForm, selectedFields, formData>>

\* the forms a caller hands to the store's createForm
StoreFormInputs ==
    {[name |-> "Intake", pdfUrl |-> Url, fields |-> <<FEmail>>],
     [name |-> "", pdfUrl |-> Url, fields |-> <<FEmail>>]}

storeCreateForm ==
    \E formInput \in StoreFormInputs :
        /\ Sent("createForm", Request("POST", "", "", "", formInput))
        /\ isFormLoading' = TRUE
        /\ formError' = Null
        /\ UNCHANGED <<forms, selectedForm, selectedFields, formData>>

storeCreateFormDone ==
    \E t \in DOMAIN tasks :
        LET newForm == checked(tasks[t].reply, "Failed to create form")
        IN  /\ Arrived(t, "createForm", newForm)
            /\ IF newForm.ok
               THEN /\ forms' = Append(forms, newForm.data)
                    /\ isFormLoading' = FALSE
                    /\ UNCHANGED formError
               ELSE /\ formError' = Some(newForm.message)
                    /\ isFormLoading' = FALSE
                    /\ UNCHANGED forms
            /\ UNCHANGED <<selectedForm, selectedFields, formData>>

StoreFormUpdates == {[name |-> "X"], [name |-> ""]}

storeUpdateFormOf(id, updates) ==
    /\ Sent("updateForm", Request("PUT", id, "", "", updates))
    /\ isFormLoading' = TRUE
    /\ formError' = Null
    /\ UNCHANGED <<forms, selectedForm, selectedFields, formData>>

storeUpdateForm ==
    \E id \in CachedIds, updates \in StoreFormUpdates : storeUpdateFormOf(id, updates)

storeUpdateFormDone ==
    \E t \in DOMAIN tasks :
        LET updatedForm == checked(tasks[t].reply, "Failed to update form")
            id == tasks[t].req.id
        IN  /\ Arrived(t, "updateForm", updatedForm)
            /\ IF updatedForm.ok
               THEN /\ forms' = replaced(id, updatedForm.data)
                    /\ selectedForm' = reselected(id, Some(updatedForm.data))
                    /\ isFormLoading' = FALSE
                    /\ UNCHANGED formError
               ELSE /\ formError' = Some(updatedForm.message)
                    /\ isFormLoading' = FALSE
                    /\ UNCHANGED <<forms, selectedForm>>
            /\ UNCHANGED <<selectedFields, formData>>

storeDeleteForm ==
    \E id \in CachedIds :
        /\ Sent("deleteForm", Request("DELETE", id, "", "", Empty))
        /\ isFormLoading' = TRUE
        /\ formError' = Null
        /\ UNCHANGED <<forms, selectedForm, selectedFields, formData>>

storeDeleteFormDone ==
    \E t \in DOMAIN tasks :
        LET done == unchecked(tasks[t].reply)
            id == tasks[t].req.id
        IN  /\ Arrived(t, "deleteForm", done)
            /\ IF done.ok
               THEN /\ forms' = SelectSeq(forms, LAMBDA form : form.id # id)
                    /\ selectedForm' = reselected(id, Null)
                    /\ isFormLoading' = FALSE
                    /\ UNCHANGED formError
               ELSE /\ formError' = Some(done.message)
                    /\ isFormLoading' = FALSE
                    /\ UNCHANGED <<forms, selectedForm>>
            /\ UNCHANGED <<selectedFields, formData>>

\* refreshForm sets nothing before its request
storeRefreshForm ==
    \E id \in CachedIds :
        /\ Sent("refreshForm", Request("GET", id, "", "", Empty))
        /\ UNCHANGED <<forms, selectedForm, selectedFields, formData, isFormLoading, formError>>

storeRefreshFormDone ==
    \E t \in DOMAIN tasks :
        LET form == checked(tasks[t].reply, "Failed to fetch form")
            id == tasks[t].req.id
        IN  /\ Arrived(t, "refreshForm", form)
            /\ IF form.ok
               THEN /\ forms' = replaced(id, form.data)
                    /\ selectedForm' = reselected(id, Some(form.data))
                    /\ UNCHANGED formError
               ELSE /\ formError' = Some("Failed to refresh form")
                    /\ UNCHANGED <<forms, selectedForm>>
            /\ UNCHANGED <<selectedFields, formData, isFormLoading>>

\* the field a caller hands to the store's addField
StoreFieldInputs == {[id |-> "f2", name |-> "note", label |-> "Note", type |-> "textarea"]}

storeAddField ==
    \E formId \in CachedIds, field \in StoreFieldInputs :
        /\ Sent("addField", Request("PUT", formId, "addField", "", field))
        /\ formError' = Null
        /\ UNCHANGED <<forms, selectedForm, selectedFields, formData, isFormLoading>>

\* the set() of addField and of updateField, or the catch with its message
fieldDone(t, kind, updatedForm, failed) ==
    LET formId == tasks[t].req.id
    IN  /\ Arrived(t, kind, updatedForm)
        /\ IF updatedForm.ok
           THEN /\ forms' = replaced(formId, updatedForm.data)
                /\ selectedForm' = reselected(formId, Some(updatedForm.data))
                /\ UNCHANGED formError
           ELSE /\ formError' = Some(failed)
                /\ UNCHANGED <<forms, selectedForm>>
        /\ UNCHANGED <<formData, isFormLoading>>

storeAddFieldDone ==
    \E t \in DOMAIN tasks :
        /\ fieldDone(t, "addField", checked(tasks[t].reply, "Failed to add field"),
                     "Failed to add field")
        /\ UNCHANGED selectedFields

StoreFieldUpdates == {[label |-> "Y"]}

storeUpdateField ==
    \E formId \in CachedIds :
      \E fieldId \in CachedFieldIds(formId), updates \in StoreFieldUpdates :
        /\ Sent("updateField", Request("PUT", formId, "updateField", fieldId, updates))
        /\ formError' = Null
        /\ UNCHANGED <<forms, selectedForm, selectedFields, formData, isFormLoading>>

storeUpdateFieldDone ==
    \E t \in DOMAIN tasks :
        /\ fieldDone(t, "updateField", checked(tasks[t].reply, "Failed to update field"),
                     "Failed to update field")
        /\ UNCHANGED selectedFields

storeRemoveField ==
    \E formId \in CachedIds :
      \E fieldId \in CachedFieldIds(formId) :
        /\ Sent("removeField", Request("DELETE", formId, "removeField", fieldId, Empty))
        /\ formError' = Null
        /\ UNCHANGED <<forms, selectedForm, selectedFields, formData, isFormLoading>>

storeRemoveFieldDone ==
    \E t \in DOMAIN tasks :
        LET updatedForm == checked(tasks[t].reply, "Failed to remove field")
        IN  /\ fieldDone(t, "removeField", updatedForm, "Failed to remove field")
            /\ selectedFields' = IF updatedForm.ok
                                 THEN SelectSeq(selectedFields,
                                                LAMBDA id : id # tasks[t].req.fieldId)
                                 ELSE selectedFields

\* what selectForm(form) found: a selection of the same id, selected fields, a draft
Found(form) ==
    [sameId |-> selectedForm # Null /\ selectedForm[1].id = form.id,
     fields |-> selectedFields # <<>>,
     draft |-> formData # Empty]

\* selectForm that keeps the selection of fields and the draft when the id stays the same
selectFormKeeps(form) ==
    /\ selectedForm' = Some(form)
    /\ selectedFields' = IF selectedForm # Null /\ selectedForm[1].id = form.id
                         THEN selectedFields ELSE <<>>
    /\ formData' = IF selectedForm # Null /\ selectedForm[1].id = form.id
                   THEN formData ELSE Empty
    /\ formError' = Null
    /\ lastCall' = [kind |-> "selectForm", form |-> form, found |-> Found(form)]
    /\ UNCHANGED <<forms, isFormLoading, tasks, started, repoVars, schemaVars, listVars>>

selectForm(form) ==
    /\ selectedForm' = Some(form)
    /\ selectedFields' = <<>>
    /\ formData' = Empty
    /\ formError' = Null
    /\ lastCall' = [kind |-> "selectForm", form |-> form, found |-> Found(form)]
    /\ UNCHANGED <<forms, isFormLoading, tasks, started, repoVars, schemaVars, listVars>>

\* the forms a caller selects: the cached ones
selectCached == \E i \in DOMAIN forms : selectForm(forms[i])

Includes(seq, v) == \E i \in DOMAIN seq : seq[i] = v

selectField(fieldId) ==
    /\ selectedFields' = IF Includes(selectedFields, fieldId) THEN selectedFields
                         ELSE Append(selectedFields, fieldId)
    /\ lastCall' = NoCall
    /\ UNCHANGED <<forms, selectedForm, formData, isFormLoading, formError, tasks, started,
                   repoVars, schemaVars, listVars>>

\* a caller selects fields of the selected form
selectShown ==
    /\ selectedForm # Null
    /\ \E fieldId \in FieldIdsOf(selectedForm[1]) : selectField(fieldId)

\* the value typed into a field
DraftValues == {"v"}

updateFormData(fieldName, value) ==
    /\ formData' = Merge(formData, [k \in {fieldName} |-> value])
    /\ lastCall' = NoCall
    /\ UNCHANGED <<forms, selectedForm, selectedFields, isFormLoading, formError, tasks,
                   started, repoVars, schemaVars, listVars>>

\* a caller fills in fields of the selected form
fillShown ==
    /\ selectedForm # Null
    /\ \E i \in DOMAIN Fields(selectedForm[1]), value \in DraftValues :
          updateFormData(Fields(selectedForm[1])[i].name, value)

NextStore ==
    \/ storeCreateForm
    \/ storeCreateFormDone
    \/ storeUpdateForm
    \/ storeUpdateFormDone
    \/ storeDeleteForm
    \/ storeDeleteFormDone
    \/ storeAddField
    \/ storeAddFieldDone
    \/ storeUpdateField
    \/ storeUpdateFieldDone
    \/ storeRemoveField
    \/ storeRemoveFieldDone
    \/ serve
    \/ selectCached
    \/ selectShown
    \/ fillShown

SpecStore == Init /\ [][NextStore]_vars

-----------------------------------------------------------------------------
(* The client store reading from the server: loadForms and refreshForm      *)
(* beside the actions that create, change and delete forms, over a          *)
(* transport whose requests can time out.                                   *)

NextSync ==
    \/ storeLoadForms
    \/ storeLoadFormsDone
    \/ storeRefreshForm
    \/ storeRefreshFormDone
    \/ storeCreateForm
    \/ storeCreateFormDone
    \/ storeUpdateForm
    \/ storeUpdateFormDone
    \/ storeDeleteForm
    \/ storeDeleteFormDone
    \/ storeRemoveField
    \/ storeRemoveFieldDone
    \/ serve
    \/ timeout
    \/ selectCached

SpecSync == Init /\ [][NextSync]_vars

-----------------------------------------------------------------------------
(* Store actions that overlap: a caller renames a cached form while other   *)
(* actions on the list are in flight, and the replies arrive in any order.  *)

\* the names a caller gives a form
Renames == {"X", "Z"}

renameForm ==
    \E id \in CachedIds, name \in Renames : storeUpdateFormOf(id, [name |-> name])

NextRace ==
    \/ storeLoadForms
    \/ storeLoadFormsDone
    \/ storeCreateForm
    \/ storeCreateFormDone
    \/ renameForm
    \/ storeUpdateFormDone
    \/ storeDeleteForm
    \/ storeDeleteFormDone
    \/ serve

SpecRace == Init /\ [][NextRace]_vars

-----------------------------------------------------------------------------
(* deleteMultipleFields: one removeField request for each id of the list,   *)
(* each awaited before the next, then refreshForm; the first request that   *)
(* throws ends the action.                                                  *)

\* the lists of field ids a caller hands over: fields of the cached form, none twice
FieldIdLists(formId) ==
    {<<>>} \cup {<<a>> : a \in CachedFieldIds(formId)}
           \cup {<<pair[1], pair[2]>> :
                     pair \in {p \in CachedFieldIds(formId) \X CachedFieldIds(formId) :
                                  p[1] # p[2]}}

\* api.delete(`?id=${formId}&action=removeField&fieldId=${fieldId}`)
RemoveRequest(formId, fieldId) == Request("DELETE", formId, "removeField", fieldId, Empty)

\* the request the action waits for next: the removal of the first id left, or the
\* api.get(`?id=${id}`) of refreshForm once the list is through
bulkRequest(formId, fieldIds) ==
    IF fieldIds = <<>> THEN Request("GET", formId, "", "", Empty)
    ELSE RemoveRequest(formId, Head(fieldIds))

bulkRest(fieldIds) == IF fieldIds = <<>> THEN <<>> ELSE Tail(fieldIds)

\* set({ formError: null }) and the first await
storeDeleteMultipleFields ==
    \E formId \in CachedIds :
      \E fieldIds \in FieldIdLists(formId) :
        /\ StoreFree
        /\ tasks' = Append(tasks, [kind |-> "deleteMultipleFields",
                                   req |-> bulkRequest(formId, fieldIds),
                                   stage |-> "sent", reply |-> NoReply,
                                   fieldIds |-> fieldIds, rest |-> bulkRest(fieldIds)])
        /\ started' = started + 1
        /\ lastCall' = NoCall
        /\ formError' = Null
        /\ UNCHANGED <<forms, selectedForm, selectedFields, formData, isFormLoading,
                       repoVars, schemaVars, listVars>>

\* FormService.removeField returned or threw: the loop goes on to the next id, or to
\* refreshForm, or the catch stores its message and throws
storeDeleteMultipleFieldsNext ==
    \E t \in DOMAIN tasks :
        LET removed == checked(tasks[t].reply, "Failed to remove field")
        IN  /\ tasks[t].kind = "deleteMultipleFields"
            /\ tasks[t].req.method = "DELETE"
            /\ IF removed.ok
               THEN /\ tasks[t].stage = "answered"
                    /\ tasks' = [tasks EXCEPT ![t].req = bulkRequest(tasks[t].req.id, tasks[t].rest),
                                              ![t].rest = bulkRest(tasks[t].rest),
                                              ![t].stage = "sent", ![t].reply = NoReply]
                    /\ lastCall' = NoCall
                    /\ UNCHANGED <<formError, started, repoVars, schemaVars, listVars>>
               ELSE /\ Settled(t, "deleteMultipleFields", removed, TRUE)
                    /\ formError' = Some("Failed to delete multiple fields")
            /\ UNCHANGED <<forms, selectedForm, selectedFields, formData, isFormLoading>>

\* refreshForm returned or threw: its set(), or its catch and then the catch around it
storeDeleteMultipleFieldsDone ==
    \E t \in DOMAIN tasks :
        LET form == checked(tasks[t].reply, "Failed to fetch form")
            id == tasks[t].req.id
        IN  /\ tasks[t].req.method = "GET"
            /\ Arrived(t, "deleteMultipleFields", form)
            /\ IF form.ok
               THEN /\ forms' = replaced(id, form.data)
                    /\ selectedForm' = reselected(id, Some(form.data))
                    /\ UNCHANGED formError
               ELSE /\ formError' = Some("Failed to delete multiple fields")
                    /\ UNCHANGED <<forms, selectedForm>>
            /\ UNCHANGED <<selectedFields, formData, isFormLoading>>

NextBulk ==
    \/ storeCreateForm
    \/ storeCreateFormDone
    \/ storeDeleteMultipleFields
    \/ storeDeleteMultipleFieldsNext
    \/ storeDeleteMultipleFieldsDone
    \/ serve
    \/ timeout
    \/ selectCached

SpecBulk == Init /\ [][NextBulk]_vars

-----------------------------------------------------------------------------
(* validateFormData: the draft of the selected form against its fields.     *)
(* A caller selects a form, types values into its fields and validates.  A  *)
(* draft value is a JavaScript value: its type, its text when it is a       *)
(* string, its number when it is a number, its items when it is an array.   *)

Value(t, s, n, items) == [t |-> t, s |-> s, n |-> n, items |-> items]

Undefined == Value("undefined", "", 0, <<>>)

NullValue == Value("null", "", 0, <<>>)

Str(s) == Value("string", s, 0, <<>>)

Num(n) == Value("number", "", n, <<>>)

Arr(items) == Value("array", "", 0, items)

\* files[0] of a file input
FileValue == Value("file", "", 0, <<>>)

\* the texts, numbers and selections a caller types in
DraftTexts == {"", " ", "a", "abcd"}

DraftNumbers == {-1, 0, 1, 5}

DraftItems == {<<>>, <<"a">>}

Drafts ==
    {NullValue, FileValue} \cup {Str(s) : s \in DraftTexts} \cup {Num(n) : n \in DraftNumbers}
        \cup {Arr(items) : items \in DraftItems}

\* formData[field.name]: undefined when the draft has no such key
valueOf(data, name) == IF Has(data, name) THEN data[name] ELSE Undefined

\* !value
Falsy(value) ==
    \/ value.t \in {"undefined", "null"}
    \/ value.t = "string" /\ value.s = ""
    \/ value.t = "number" /\ value.n = 0

\* value.trim() of the texts a caller types
trim(text) == IF text \in {"", " "} THEN "" ELSE text

\* String(value): digits of a number, the items of an array joined by commas
String(value) ==
    CASE value.t = "string" -> value.s
      [] value.t = "number" -> ToString(value.n)
      [] value.t = "array" -> IF value.items = <<>> THEN "" ELSE value.items[1]
      [] value.t = "file" -> "[object File]"
      [] OTHER -> value.t

\* Number(value): NaN for a text that is no number and for an object
NaN == [nan |-> TRUE, n |-> 0]

Number(value) ==
    CASE value.t = "number" -> [nan |-> FALSE, n |-> value.n]
      [] value.t = "string" -> IF trim(value.s) = "" THEN [nan |-> FALSE, n |-> 0] ELSE NaN
      [] value.t = "array" -> IF value.items = <<>> THEN [nan |-> FALSE, n |-> 0] ELSE NaN
      [] value.t = "null" -> [nan |-> FALSE, n |-> 0]
      [] OTHER -> NaN

\* errors[field.name] = message
Report(errors, name, message) == Merge(errors, [k \in {name} |-> message])

\* a checkbox that counts every array as filled in, the empty one too
missingAnyArray(field, value) ==
    IF field.type = "checkbox" THEN value.t # "array"
    ELSE IF field.type = "file" THEN Falsy(value)
    ELSE Falsy(value) \/ (value.t = "string" /\ trim(value.s) = "")

\* the three branches under if (field.required)
missing(field, value) ==
    IF field.type = "checkbox" THEN value.t # "array" \/ Len(value.items) = 0
    ELSE IF field.type = "file" THEN Falsy(value)
    ELSE Falsy(value) \/ (value.t = "string" /\ trim(value.s) = "")

required(errors, field, value) ==
    IF Has(field, "required") /\ field.required /\ missing(field, value)
    THEN Report(errors, field.name, field.label \o " is required")
    ELSE errors

\* val.minLength && stringValue.length < val.minLength
tooShort(val, value) ==
    Has(val, "minLength") /\ val.minLength # 0 /\ Len(String(value)) < val.minLength

tooLong(val, value) ==
    Has(val, "maxLength") /\ val.maxLength # 0 /\ Len(String(value)) > val.maxLength

\* val.min !== undefined && numValue < val.min: a comparison with NaN is false
tooSmall(val, value) ==
    Has(val, "min") /\ ~Number(value).nan /\ Number(value).n < val.min

tooLarge(val, value) ==
    Has(val, "max") /\ ~Number(value).nan /\ Number(value).n > val.max

\* the block under if (value && field.validation): a later message replaces an earlier one
validated(errors, field, value) ==
    IF Falsy(value) \/ ~Has(field, "validation") THEN errors
    ELSE LET val == field.validation
             e1 == IF tooShort(val, value)
                   THEN Report(errors, field.name, field.label \o " must be at least " \o
                                   ToString(val.minLength) \o " characters")
                   ELSE errors
             e2 == IF tooLong(val, value)
                   THEN Report(e1, field.name, field.label \o " must be no more than " \o
                                   ToString(val.maxLength) \o " characters")
                   ELSE e1
             e3 == IF field.type = "number" /\ tooSmall(val, value)
                   THEN Report(e2, field.name, field.label \o " must be at least " \o
                                   ToString(val.min))
                   ELSE e2
         IN  IF field.type = "number" /\ tooLarge(val, value)
             THEN Report(e3, field.name, field.label \o " must be no more than " \o
                             ToString(val.max))
             ELSE e3

\* selectedForm.fields.forEach(...), from the first field on
RECURSIVE checkFields(_, _, _)
checkFields(errors, fields, data) ==
    IF fields = <<>> THEN errors
    ELSE LET field == Head(fields)
             value == valueOf(data, field.name)
         IN  checkFields(validated(required(errors, field, value), field, value),
                         Tail(fields), data)

validationOf(selected, data) ==
    IF selected = Null THEN [isValid |-> TRUE, errors |-> Empty]
    ELSE LET errors == checkFields(Empty, selected[1].fields, data)
         IN  [isValid |-> DOMAIN errors = {}, errors |-> errors]

\* validateFormData returns its report and sets nothing
validateFormData ==
    /\ lastCall.kind # "validateFormData"
    /\ lastCall' = [kind |-> "validateFormData", result |-> validationOf(selectedForm, formData)]
    /\ UNCHANGED <<forms, selectedForm, selectedFields, formData, isFormLoading, formError,
                   tasks, started, repoVars, schemaVars, listVars>>

\* the fields of the forms a caller previews
DraftTypes == {"checkbox", "file", "number", "input"}

DraftRules ==
    {[min |-> 1], [max |-> 3], [min |-> 0, max |-> 0], [minLength |-> 2], [maxLength |-> 2],
     [minLength |-> 0, maxLength |-> 0]}

DraftFields ==
    LET base == {[id |-> "g1", name |-> "f", label |-> "F", type |-> t] : t \in DraftTypes}
        marked == base \cup {Merge(b, [required |-> r]) : b \in base, r \in BOOLEAN}
    IN  marked \cup {Merge(b, [validation |-> v]) : b \in marked, v \in DraftRules}

SecondField == [id |-> "g3", name |-> "h", label |-> "H", type |-> "input", required |-> TRUE]

DraftForms ==
    {[id |-> "g2", name |-> "Intake", pdfUrl |-> Url, fields |-> <<f>>] : f \in DraftFields}
        \cup {[id |-> "g2", name |-> "Intake", pdfUrl |-> Url, fields |-> <<f, SecondField>>] :
                  f \in {d \in DraftFields : ~Has(d, "validation")}}

\* a caller selects one form, and types one value into each of its fields
selectDraft == \E form \in DraftForms : selectedForm = Null /\ selectForm(form)

fillDraft ==
    /\ selectedForm # Null
    /\ \E i \in DOMAIN Fields(selectedForm[1]), value \in Drafts :
          /\ ~Has(formData, Fields(selectedForm[1])[i].name)
          /\ updateFormData(Fields(selectedForm[1])[i].name, value)

NextValidate ==
    \/ selectDraft
    \/ fillDraft
    \/ validateFormData

SpecValidate == Init /\ [][NextValidate]_vars

-----------------------------------------------------------------------------
(* The properties, in the words of the specification *)

NonEmpty(a, k) == Has(a, k) /\ a[k] # ""

\* a field with a non-empty name, a non-empty label and a type of the enumeration
FieldOk(f) == NonEmpty(f, "name") /\ NonEmpty(f, "label") /\ Has(f, "type") /\ f.type \in FieldTypes

\* full schema validation of a form
PassesSchema(d) ==
    /\ NonEmpty(d, "name")
    /\ Has(d, "pdfUrl") /\ d.pdfUrl \in WellFormedUrls
    /\ Fields(d) # <<>>
    /\ \A i \in DOMAIN Fields(d) : FieldOk(Fields(d)[i])

\* caller p starts a call of the given kind in this step
Starts(p, kind) == calls'[p] = calls[p] + 1 /\ op'[p].kind = kind

\* caller p's call of the given kind has returned
Done(p, kind) == pc[p] = "done" /\ op[p].kind = kind

AllHaveIds(fields) == \A i \in DOMAIN fields : NonEmpty(fields[i], "id")

(* C1: every stored form document passes full schema validation, in every   *)
(* state the repository operations reach.                                   *)
C1_StoredFormsPassSchema == \A id \in DOMAIN docs : PassesSchema(docs[id])

(* C2: createForm of a valid input goes on to persist exactly one new       *)
(* document, whose fields keep the caller's ids and get a generated id      *)
(* where the caller gave none or an empty one; it returns success, and      *)
(* every field of the returned form has a non-empty id.                     *)
C2_CreateFormValid ==
    [][\A p \in Procs :
        /\ (Starts(p, "createForm") /\ PassesSchema(op'[p].arg)) =>
              LET id == op'[p].formId
                  given == op'[p].arg.fields
              IN  /\ pc'[p] = "create_get"
                  /\ id \notin DOMAIN docs
                  /\ DOMAIN docs' = (DOMAIN docs) \cup {id}
                  /\ \A k \in DOMAIN docs : docs'[k] = docs[k]
                  /\ Len(docs'[id].fields) = Len(given)
                  /\ AllHaveIds(docs'[id].fields)
                  /\ \A i \in DOMAIN given :
                        NonEmpty(given[i], "id") => docs'[id].fields[i].id = given[i].id
        /\ (pc[p] = "create_get" /\ pc'[p] = "done") =>
              /\ res'[p].success
              /\ res'[p].data.id # ""
              /\ AllHaveIds(Fields(res'[p].data))
              /\ docs' = docs
      ]_vars

\* a createForm has returned a form with a kept id and a generated id
C2_Witness ==
    \E p \in Procs :
        /\ Done(p, "createForm") /\ res[p].success
        /\ Len(op[p].arg.fields) = 2
        /\ op[p].arg.fields[1].id = res[p].data.fields[1].id
        /\ op[p].arg.fields[2].id = ""
        /\ res[p].data.fields[2].id # ""

\* an input that breaks one of the rules the claim lists
BreaksARule(d) ==
    \/ ~NonEmpty(d, "name")
    \/ ~(Has(d, "pdfUrl") /\ d.pdfUrl \in WellFormedUrls)
    \/ Fields(d) = <<>>
    \/ \E i \in DOMAIN Fields(d) : ~(Has(Fields(d)[i], "type") /\ Fields(d)[i].type \in FieldTypes)

(* C3: createForm of an input that breaks a validation rule (empty name,    *)
(* malformed pdfUrl, empty fields, a field type outside the enumeration)    *)
(* returns the failure 'Validation failed' and leaves the stored documents  *)
(* as they were.                                                            *)
C3_CreateFormInvalid ==
    [][\A p \in Procs :
        (Starts(p, "createForm") /\ BreaksARule(op'[p].arg)) =>
            /\ pc'[p] = "done"
            /\ res'[p] = Failure("Validation failed")
            /\ docs' = docs
      ]_vars

\* with a document stored, one createForm failed on the pdfUrl and one on a field type
C3_Witness ==
    /\ docs # Empty
    /\ Done("p1", "createForm") /\ res["p1"].message = "Validation failed"
    /\ op["p1"].arg.pdfUrl \notin WellFormedUrls
    /\ Done("p2", "createForm") /\ res["p2"].message = "Validation failed"
    /\ \E i \in DOMAIN op["p2"].arg.fields : op["p2"].arg.fields[i].type \notin FieldTypes

\* the ids of the fields of a document
IdsOf(d) == {Fields(d)[i].id : i \in {j \in DOMAIN Fields(d) : Has(Fields(d)[j], "id")}}

\* two addField calls on one form that both read the same stored version of it
Raced(p, q) ==
    /\ p # q
    /\ Done(p, "addField") /\ Done(q, "addField")
    /\ res[p].success /\ res[q].success
    /\ op[p].formId = op[q].formId
    /\ snap[p].data = snap[q].data

(* C4: two addField calls on the same form can interleave their getDoc and  *)
(* updateDoc so that both report success and the stored form holds only one *)
(* of the two added fields: whenever both calls read the same version of    *)
(* the document and both succeed, the stored field sequence is one field    *)
(* longer than what they read, not two (C4_Witness is such a state).        *)
C4_LostUpdate ==
    \A p, q \in Procs :
        Raced(p, q) =>
            /\ op[p].formId \in DOMAIN docs
            /\ Len(Fields(docs[op[p].formId])) = Len(Fields(snap[p].data)) + 1

\* both calls reported success, the two added fields differ, and the stored form
\* holds p's field and not q's
C4_Witness ==
    \E p, q \in Procs :
        /\ Raced(p, q)
        /\ loc[p].field.id # loc[q].field.id
        /\ loc[p].field.id \in IdsOf(docs[op[p].formId])
        /\ loc[q].field.id \notin IdsOf(docs[op[p].formId])
        /\ loc[q].field.id \notin IdsOf(snap[p].data)

\* no field of the document has this id
NoFieldWithId(d, fieldId) == fieldId \notin IdsOf(d)

(* C5: updateField on an existing form that has no field with the given id  *)
(* returns the failure 'Field not found' and leaves the stored document     *)
(* (its fields and its updatedAt included) unchanged.                       *)
C5_UpdateFieldNotFound ==
    [][\A p \in Procs :
        (/\ Starts(p, "updateField")
         /\ op'[p].formId \in DOMAIN docs
         /\ NoFieldWithId(docs[op'[p].formId], op'[p].fieldId)) =>
            /\ pc'[p] = "done"
            /\ res'[p] = Failure("Field not found")
            /\ docs' = docs
      ]_vars

\* an updateField on a stored form with fields returned 'Field not found'
C5_Witness ==
    \E p \in Procs :
        /\ Done(p, "updateField")
        /\ res[p].message = "Field not found"
        /\ snap[p].exists /\ Len(Fields(snap[p].data)) >= 2
        /\ docs[op[p].formId] = snap[p].data

(* C6: removeField on an existing form that has no field with the given id  *)
(* fails with 'Field not found' (and does not alter the stored fields).     *)
C6_RemoveFieldNotFound ==
    \A p \in Procs :
        (/\ op[p].kind = "removeField"
         /\ snap[p].exists
         /\ NoFieldWithId(snap[p].data, op[p].fieldId)) =>
            /\ pc[p] = "done"
            /\ res[p] = Failure("Field not found")

\* the call read the stored document and nothing else wrote it until the call returned
Undisturbed(p) ==
    /\ pre[p] = snap[p].data
    /\ res[p].data = Merge([id |-> op[p].formId], post[p])

(* C7: after a successful addField with no concurrent operation on the form *)
(* the stored field sequence is the previous sequence with the new field    *)
(* appended last: the prior fields keep their content and their order.      *)
C7_AddFieldAppends ==
    \A p \in Procs :
        (Done(p, "addField") /\ res[p].success /\ Undisturbed(p)) =>
            LET before == Fields(snap[p].data)
                after == Fields(res[p].data)
                new == after[Len(after)]
                given == op[p].arg
            IN  /\ Len(after) = Len(before) + 1
                /\ SubSeq(after, 1, Len(before)) = before
                /\ Without(new, {"id"}) = Without(given, {"id"})
                /\ NonEmpty(new, "id")
                /\ NonEmpty(given, "id") => new.id = given.id

\* a field was appended to a form that had two fields
C7_Witness ==
    \E p \in Procs :
        /\ Done(p, "addField") /\ res[p].success /\ Undisturbed(p)
        /\ Len(Fields(snap[p].data)) = 2
        /\ Len(Fields(docs[op[p].formId])) = 3

\* key k is the same in both objects: absent in both, or present with one value
SameKey(a, b, k) == (Has(a, k) <=> Has(b, k)) /\ (Has(a, k) => a[k] = b[k])

\* the keys an updateForm payload may change
Named(partial) == ((DOMAIN partial) \ {"id", "createdAt"}) \cup {"updatedAt"}

(* C8: a successful updateForm(id, partial) changes in the stored document  *)
(* only the keys named in partial (other than id and createdAt) and         *)
(* updatedAt; an id or createdAt of the payload changes neither the         *)
(* document's id nor its createdAt; every other stored key is unchanged.    *)
C8_UpdateFormFrame ==
    \A p \in Procs :
        (Done(p, "updateForm") /\ res[p].success) =>
            /\ \A k \in ((DOMAIN pre[p]) \cup (DOMAIN post[p])) \ Named(op[p].arg) :
                  SameKey(pre[p], post[p], k)
            /\ SameKey(pre[p], post[p], "id")
            /\ SameKey(pre[p], post[p], "createdAt")
            /\ post[p].updatedAt > pre[p].updatedAt
            /\ res[p].data.id = op[p].formId

\* an updateForm whose payload carried id, createdAt and updatedAt succeeded on a
\* document that stores an id key of its own
C8_Witness ==
    \E p \in Procs :
        /\ Done(p, "updateForm") /\ res[p].success
        /\ {"id", "createdAt", "updatedAt"} \subseteq DOMAIN op[p].arg
        /\ Has(pre[p], "id") /\ pre[p].id # op[p].arg.id
        /\ post[p].description = op[p].arg.description
        /\ pre[p].description # post[p].description

\* the stored document merged with the payload, as the claim describes it
MergedWith(d, partial) == Merge(d, Without(partial, {"id", "createdAt"}))

(* C9: updateForm returns a failure and leaves the store unchanged when the *)
(* id does not exist ('Form not found') and when the stored document merged *)
(* with the update fails schema validation ('Validation failed'); it writes *)
(* to the store only after the merged result validated.                     *)
C9_UpdateFormFailures ==
    [][\A p \in Procs :
        /\ (Starts(p, "updateForm") /\ op'[p].formId \notin DOMAIN docs) =>
              /\ pc'[p] = "done"
              /\ res'[p] = Failure("Form not found")
              /\ docs' = docs
        /\ (/\ Starts(p, "updateForm")
            /\ op'[p].formId \in DOMAIN docs
            /\ ~PassesSchema(MergedWith(docs[op'[p].formId], op'[p].arg))) =>
              /\ pc'[p] = "done"
              /\ res'[p] = Failure("Validation failed")
              /\ docs' = docs
        /\ Starts(p, "updateForm") => docs' = docs
        /\ (op[p].kind = "updateForm" /\ pc[p] = "update_write") =>
              PassesSchema(MergedWith(snap[p].data, op[p].arg))
      ]_vars

\* one updateForm failed on a missing id and one on the merged document
C9_Witness ==
    /\ docs # Empty
    /\ Done("p1", "updateForm") /\ res["p1"].message = "Validation failed"
    /\ Done("p2", "updateForm") /\ res["p2"].message = "Form not found"

\* the first field with this id, 0 when there is none
FirstWithId(fields, fieldId) ==
    IF \E i \in DOMAIN fields : Has(fields[i], "id") /\ fields[i].id = fieldId
    THEN CHOOSE i \in DOMAIN fields :
            /\ Has(fields[i], "id") /\ fields[i].id = fieldId
            /\ \A j \in 1..(i - 1) : ~(Has(fields[j], "id") /\ fields[j].id = fieldId)
    ELSE 0

\* what updateField(formId, fieldId, partial) may change between two field sequences
FieldFrame(before, after, fieldId, partial) ==
    LET i == FirstWithId(before, fieldId)
    IN  /\ i # 0
        /\ Len(after) = Len(before)
        /\ after[i].id = fieldId
        /\ \A k \in (DOMAIN partial) \ {"id"} : Has(after[i], k) /\ after[i][k] = partial[k]
        /\ \A k \in ((DOMAIN before[i]) \cup (DOMAIN after[i])) \ (DOMAIN partial) :
              SameKey(before[i], after[i], k)
        /\ \A j \in (DOMAIN before) \ {i} : after[j] = before[j]

(* C10, as stated: a successful updateField changes only the keys named in  *)
(* partial on the field with id fieldId, which keeps that id, and every     *)
(* other field of the stored form keeps its content and its position.       *)
C10_AsStated ==
    \A p \in Procs :
        (Done(p, "updateField") /\ res[p].success) =>
            FieldFrame(Fields(pre[p]), Fields(post[p]), op[p].fieldId, op[p].arg)

(* C10, amended: the same, for an updateField between whose read and write  *)
(* no other call wrote the form.                                            *)
C10_UpdateFieldFrame ==
    \A p \in Procs :
        (Done(p, "updateField") /\ res[p].success /\ pre[p] = snap[p].data) =>
            FieldFrame(Fields(pre[p]), Fields(post[p]), op[p].fieldId, op[p].arg)

\* an updateField whose payload carried another id succeeded on the second field of a form
C10_Witness ==
    \E p \in Procs :
        /\ Done(p, "updateField") /\ res[p].success /\ pre[p] = snap[p].data
        /\ Has(op[p].arg, "id") /\ op[p].arg.id # op[p].fieldId
        /\ FirstWithId(Fields(pre[p]), op[p].fieldId) = 2
        /\ Fields(post[p])[2].label = "Y"

\* a string that is empty or made of blanks only
Blank(s) == s \in {"", " ", "  "}

(* C18: schema validation rejects a form whose name, or a field whose name  *)
(* or label, is empty or consists only of whitespace.                       *)
C18_RejectsBlank ==
    (/\ verdict.done
     /\ \/ Blank(cand.name)
        \/ \E i \in DOMAIN cand.fields : Blank(cand.fields[i].name) \/ Blank(cand.fields[i].label)) =>
        ~verdict.success

\* the document createForm wrote is stored as it was written
AsCreated(id) == id \in DOMAIN docs /\ docs[id].updatedAt = docs[id].createdAt

(* C11: for every valid input, getForm(id) called right after createForm    *)
(* returned id (no write to the store in between) yields a form equal to    *)
(* the created one in name, description, pdfUrl and the whole field         *)
(* sequence, ids included.                                                  *)
C11_GetAfterCreate ==
    [][\A p \in Procs :
        (/\ Done(p, "createForm") /\ res[p].success
         /\ AsCreated(op[p].formId)
         /\ Starts(p, "getForm")
         /\ op'[p].formId = res[p].data.id) =>
            /\ res'[p].success
            /\ \A k \in {"name", "description", "pdfUrl", "fields"} :
                  SameKey(res'[p].data, res[p].data, k)
      ]_vars

\* the same, for the id of the document createForm wrote
C11_GetByDocId ==
    [][\A p \in Procs :
        (/\ Done(p, "createForm") /\ res[p].success
         /\ AsCreated(op[p].formId)
         /\ Starts(p, "getForm")
         /\ op'[p].formId = op[p].formId) =>
            /\ res'[p].success
            /\ \A k \in {"name", "description", "pdfUrl", "fields"} :
                  SameKey(res'[p].data, res[p].data, k)
      ]_vars

(* C16: deleteForm(id) on an existing id removes that document, so that a   *)
(* later getForm(id) fails and the number of stored documents drops by one, *)
(* every other document unchanged; deleteForm on a missing id returns the   *)
(* failure 'Form not found' and leaves the store unchanged.                 *)
C16_DeleteForm ==
    [][\A p \in Procs :
        /\ (Starts(p, "deleteForm") /\ op'[p].formId \notin DOMAIN docs) =>
              /\ pc'[p] = "done"
              /\ res'[p] = Failure("Form not found")
              /\ docs' = docs
        /\ (Starts(p, "deleteForm") /\ op'[p].formId \in DOMAIN docs) =>
              /\ pc'[p] = "delete_write"
              /\ docs' = docs
        /\ (pc[p] = "delete_write" /\ pc'[p] = "done" /\ op[p].formId \in DOMAIN docs) =>
              /\ res'[p].success
              /\ DOMAIN docs' = (DOMAIN docs) \ {op[p].formId}
              /\ Cardinality(DOMAIN docs') = Cardinality(DOMAIN docs) - 1
              /\ \A k \in DOMAIN docs' : docs'[k] = docs[k]
        /\ (/\ Starts(p, "getForm")
            /\ \E q \in Procs : /\ Done(q, "deleteForm") /\ res[q].success
                                 /\ op[q].formId = op'[p].formId) =>
              /\ ~res'[p].success
              /\ res'[p].data = Empty
      ]_vars

\* a deleteForm removed one of two stored documents
C16_Witness ==
    \E p \in Procs :
        /\ Done(p, "deleteForm") /\ res[p].success
        /\ pre[p] # Empty
        /\ op[p].formId \notin DOMAIN docs
        /\ docs # Empty

\* the steps that write a form: updateDoc of updateForm and of the field operations
WritesForm(p) ==
    /\ pc[p] \in {"update_write", "add_write", "updf_write", "remf_write"}
    /\ pc'[p] # pc[p]
    /\ op[p].formId \in DOMAIN docs

(* C17: over any sequence of updateForm, addField, updateField and          *)
(* removeField calls the stored createdAt of a form keeps the value set at  *)
(* creation, and every such call that succeeds sets updatedAt to the server *)
(* time of its write.                                                       *)
C17_Timestamps ==
    [][/\ \A id \in (DOMAIN docs) \cap (DOMAIN docs') :
              docs'[id].createdAt = docs[id].createdAt
       /\ \A id \in (DOMAIN docs') \ (DOMAIN docs) : docs'[id].createdAt = clock'
       /\ \A p \in Procs :
              WritesForm(p) =>
                  /\ clock' > clock
                  /\ docs'[op[p].formId].updatedAt = clock'
      ]_vars

\* an updateForm whose payload carried a createdAt and a field operation both
\* succeeded on one form, which keeps the createdAt of its creation
C17_Witness ==
    \E p, q \in Procs :
        /\ Done(p, "updateForm") /\ res[p].success /\ Has(op[p].arg, "createdAt")
        /\ Done(q, "removeField") /\ res[q].success
        /\ op[p].formId = op[q].formId
        /\ op[p].formId \in DOMAIN docs
        /\ docs[op[p].formId].createdAt = 1
        /\ docs[op[p].formId].createdAt # op[p].arg.createdAt
        /\ docs[op[p].formId].updatedAt = 3

\* the listing client's read returns in this step
ReadReturns(kind) == Len(lpages') = Len(lpages) + 1 /\ lreq'.kind = kind

\* what the claim asks of getForm's response r for the document snapshot s
GetFormContract(r, s) ==
    /\ r.success <=> (s.exists /\ PassesSchema(s.data))
    /\ r.success =>
          /\ \A k \in {"name", "description", "pdfUrl"} : SameKey(r.data, s.data, k)
          /\ Len(Fields(r.data)) = Len(Fields(s.data))
    /\ ~r.success => r.data = Empty

(* C12: in every variant of the repository, getForm(id) returns success     *)
(* with the form as data exactly when a document with that id exists and    *)
(* passes schema validation; otherwise it returns a failure and no form     *)
(* data.                                                                    *)
C12_EveryVariant ==
    [][/\ ReadReturns("getFormEarlier") => GetFormContract(lres', GetDoc(lreq'.id))
       /\ \A p \in Procs :
             Starts(p, "getForm") => GetFormContract(res'[p], GetDoc(op'[p].formId))
      ]_vars

\* the same for getForm of the current variant alone
C12_CurrentVariant ==
    [][\A p \in Procs :
          Starts(p, "getForm") => GetFormContract(res'[p], GetDoc(op'[p].formId))
      ]_vars

\* the ids are in newest-first order of the createdAt of their documents
NewestFirst(ids) ==
    \A i, j \in DOMAIN ids :
        i < j => (ids[i] \in DOMAIN docs /\ ids[j] \in DOMAIN docs
                  /\ docs[ids[i]].createdAt > docs[ids[j]].createdAt)

(* C13: for every limit >= 1 and offset >= 0, getForms returns at most      *)
(* limit forms, ordered by createdAt descending, and total is the number of *)
(* all stored documents, whatever limit and offset are.                     *)
C13_ListForms ==
    [][ReadReturns("getForms") =>
          /\ lres'.success
          /\ lres'.data.total = Cardinality(DOMAIN docs)
          /\ Len(lres'.data.forms) = Len(lids')
          /\ NewestFirst(lids')
          /\ lreq'.limit >= 1 => Len(lres'.data.forms) <= lreq'.limit
      ]_vars

\* asked for one form after the first, of three stored, getForms returned one form and total 3
C13_Witness ==
    /\ lpc = "done" /\ lreq.kind = "getForms"
    /\ lreq.limit = 1 /\ lreq.offset = 1
    /\ Len(lres.data.forms) = 1
    /\ lres.data.total = 3

\* positions offset .. offset+limit-1 of the newest-first ordering, fewer where it ends
Page(D, options) ==
    SubSeq(OrderDesc(D), options.offset + 1,
           Min(options.offset + options.limit, Cardinality(DOMAIN D)))

(* C14: with no write during the call, listForms({limit, offset}) returns   *)
(* exactly the stored forms at positions offset .. offset+limit-1 of the    *)
(* newest-first ordering (fewer only where the ordering ends), in every     *)
(* variant of the repository.                                               *)
C14_ExactSlice ==
    [][\A kind \in {"getForms", "getFormsEarlier"} :
          (ReadReturns(kind) /\ docs = lstart /\ lreq'.limit >= 1) =>
              lids' = Page(docs, lreq')
      ]_vars

\* the same for getForms of the current variant alone, over documents that pass the schema
C14_CurrentVariant ==
    [][(/\ ReadReturns("getForms") /\ docs = lstart /\ lreq'.limit >= 1
        /\ \A id \in DOMAIN docs : PassesSchema(docs[id])) =>
              lids' = Page(docs, lreq')
      ]_vars

\* every stored document is as createForm wrote it: createForm alone wrote the store
OnlyCreated == \A id \in DOMAIN docs : AsCreated(id)

\* no form is on two pages, or twice on one
NoDuplicate ==
    \A i, j \in DOMAIN lpages :
        \A a \in DOMAIN lpages[i].ids, b \in DOMAIN lpages[j].ids :
            (i # j \/ a # b) => lpages[i].ids[a] # lpages[j].ids[b]

Returned == UNION {{lpages[i].ids[a] : a \in DOMAIN lpages[i].ids} : i \in DOMAIN lpages}

\* no form stored before the first request is passed over: when a form stored then was
\* returned, so was every newer form stored then
NoSkip ==
    LET old == OrderDesc(lpages[1].start)
    IN  \A x, y \in DOMAIN old : (y < x /\ old[x] \in Returned) => old[y] \in Returned

(* C15: when a client fetches consecutive pages (offset 0, then offset =     *)
(* limit, ...) while createForm calls insert new forms between or during    *)
(* the page requests, no form that existed before the first request is      *)
(* skipped and no form is returned on two pages.                            *)
C15_StablePages ==
    (/\ lpages # <<>>
     /\ lpages[1].req.kind = "getForms"
     /\ lpages[1].req.offset = 0 /\ lpages[1].req.limit >= 1
     /\ OnlyCreated) =>
        NoDuplicate /\ NoSkip

\* the half of it that holds: no form stored before the first request is skipped
C15_NoSkip ==
    (/\ lpages # <<>>
     /\ lpages[1].req.kind = "getForms"
     /\ lpages[1].req.offset = 0 /\ lpages[1].req.limit >= 1
     /\ OnlyCreated) =>
        NoSkip

\* an asynchronous store action settles in this step: it resolves or it rejects
Settles == Len(tasks') = Len(tasks) - 1

\* the repository operation behind the action that settles returned success
Confirmed == lastCall'.task.reply.result.success

(* C19: for every store mutation action (createForm, updateForm,            *)
(* deleteForm, addField, updateField, removeField): when the repository     *)
(* rejected or failed the operation, the cached forms list and selectedForm *)
(* are the same after the action as before it; the cache changes only after *)
(* the server confirmed the mutation.                                       *)
C19_CacheAfterConfirmation ==
    [][/\ (Settles /\ ~Confirmed) => (forms' = forms /\ selectedForm' = selectedForm)
       /\ forms' # forms => (Settles /\ Confirmed)
       /\ selectedForm' # selectedForm =>
             (lastCall'.kind = "selectForm" \/ (Settles /\ Confirmed))
      ]_vars

\* the same for the five actions other than deleteForm
C19_OtherActions ==
    [][/\ (Settles /\ ~Confirmed /\ lastCall'.kind # "deleteForm") =>
             (forms' = forms /\ selectedForm' = selectedForm)
       /\ (forms' # forms /\ lastCall'.kind # "deleteForm") => (Settles /\ Confirmed)
       /\ (selectedForm' # selectedForm /\ lastCall'.kind # "deleteForm") =>
             (lastCall'.kind = "selectForm" \/ (Settles /\ Confirmed))
      ]_vars

(* C20: selectForm(form) always leaves selectedForm = form, selectedFields  *)
(* empty and formData empty, whatever the state before it was, also when    *)
(* form has the id of the form selected before.                             *)
C20_SelectForm ==
    lastCall.kind = "selectForm" =>
        /\ selectedForm = Some(lastCall.form)
        /\ selectedFields = <<>>
        /\ formData = Empty

\* selectForm ran on a form with the id of the selected one, with fields selected and a draft
C20_Witness ==
    /\ lastCall.kind = "selectForm"
    /\ lastCall.found.sameId /\ lastCall.found.fields /\ lastCall.found.draft
    /\ selectedForm = Some(lastCall.form)

\* the id of the selected form, "" when no form is selected
SelectedId(sel) == IF sel = Null THEN "" ELSE sel[1].id

(* C21: whenever a store action changes which form is selected, also when   *)
(* deleteForm of the selected form sets the selection to none, the          *)
(* selectedFields and the formData of the resulting state are empty.        *)
C21_SelectionCleared ==
    [][SelectedId(selectedForm') # SelectedId(selectedForm) =>
            (selectedFields' = <<>> /\ formData' = Empty)]_vars

\* the same for the changes selectForm makes
C21_BySelectForm ==
    [][(SelectedId(selectedForm') # SelectedId(selectedForm) /\ lastCall'.kind = "selectForm") =>
            (selectedFields' = <<>> /\ formData' = Empty)]_vars

\* a store action calls the transport layer in this step: a request joins the ones in flight
Requests == Len(tasks') = Len(tasks) + 1

(* C25: every asynchronous store action sets isFormLoading to true and      *)
(* formError to null before it calls the transport layer, and sets          *)
(* isFormLoading to false when the call resolves, on success and on         *)
(* failure.                                                                 *)
C25_LoadingFlag ==
    [][/\ Requests => (isFormLoading' /\ formError' = Null)
       /\ Settles => ~isFormLoading']_vars

\* the same for createForm, updateForm and deleteForm
FormActionKinds == {"createForm", "updateForm", "deleteForm"}

C25_FormActions ==
    [][/\ (Requests /\ tasks'[Len(tasks')].kind \in FormActionKinds) =>
              (isFormLoading' /\ formError' = Null)
       /\ (Settles /\ lastCall'.kind \in FormActionKinds) => ~isFormLoading']_vars

FieldKinds == {"addField", "updateField", "removeField"}

\* a store addField, updateField or removeField resolves in this step
FieldSucceeds == Settles /\ lastCall'.kind \in FieldKinds /\ lastCall'.outcome.ok

(* C23: after a successful store addField, updateField or removeField on    *)
(* formId, the forms entry with id formId is the form the server returned   *)
(* and selectedForm is that same form when its id was formId; the forms     *)
(* entries with another id and a selectedForm with another id are           *)
(* unchanged.                                                               *)
C23_FieldFrame ==
    [][FieldSucceeds =>
          LET formId == lastCall'.task.req.id
              returned == lastCall'.outcome.data
          IN  /\ Len(forms') = Len(forms)
              /\ \A i \in DOMAIN forms :
                    forms'[i] = IF forms[i].id = formId THEN returned ELSE forms[i]
              /\ selectedForm' = IF SelectedId(selectedForm) = formId THEN Some(returned)
                                 ELSE selectedForm]_vars

\* a field action succeeded on the selected form, beside a cached form with another id
C23_Witness ==
    /\ lastCall.kind \in FieldKinds
    /\ lastCall.outcome.ok
    /\ selectedForm = Some(lastCall.outcome.data)
    /\ \E i \in DOMAIN forms : forms[i] = lastCall.outcome.data
    /\ \E i \in DOMAIN forms : forms[i].id # lastCall.task.req.id

(* C22: in every reachable state of the client store, selectedForm is none  *)
(* or equal to an element of the cached forms list.                         *)
C22_SelectedIsCached ==
    selectedForm = Null \/ \E i \in DOMAIN forms : forms[i] = selectedForm[1]

\* the weaker reading: a form with the id of the selected form is cached
C22_SelectedIdIsCached ==
    selectedForm = Null \/ \E i \in DOMAIN forms : forms[i].id = selectedForm[1].id

\* an asynchronous store action fails in this step: the transport threw
Fails == Settles /\ ~lastCall'.outcome.ok

(* C24: every asynchronous store action that fails leaves formError set to  *)
(* a non-null message and signals the failure to its caller by rejecting.   *)
C24_FailureSignalled ==
    [][Fails => (formError' # Null /\ lastCall'.rejects)]_vars

\* the same for the actions other than loadForms
C24_OtherActions ==
    [][(Fails /\ lastCall'.kind # "loadForms") =>
            (formError' # Null /\ lastCall'.rejects)]_vars

\* every failing action stores a message, loadForms as well
C24_MessageStored ==
    [][Fails => formError' # Null]_vars

\* the requests of this method that the handler answered, with the answer the client holds
Answered(method) ==
    {tasks[t] : t \in {u \in DOMAIN tasks : /\ tasks[u].stage = "answered"
                                             /\ tasks[u].req.method = method
                                             /\ tasks[u].reply.called # "none"}}

(* C29: a POST request yields status 201 when createForm succeeds and a 4xx *)
(* status that carries the failure envelope when createForm reports a       *)
(* validation failure.                                                      *)
C29_PostStatus ==
    \A task \in Answered("POST") :
        IF task.reply.result.success
        THEN task.reply.status = 201 /\ task.reply.json = task.reply.result
        ELSE /\ task.reply.status \in 400..499
             /\ task.reply.json = task.reply.result
             /\ ~task.reply.json.success
             /\ task.reply.json.message = "Validation failed"

\* two POST requests are answered, one created its form and one failed validation
C29_Witness ==
    /\ \E task \in Answered("POST") :
          task.reply.result.success /\ task.reply.status = 201
    /\ \E task \in Answered("POST") :
          /\ ~ValidForm(task.req.body)
          /\ task.reply.result.message = "Validation failed"
          /\ task.reply.status = 404

(* C30: a GET request with an id query parameter yields status 200 with the *)
(* form when a form with that id exists and status 404 when it does not.    *)
C30_GetStatus ==
    \A task \in Answered("GET") :
        task.req.id # "" =>
            IF task.reply.result.message = "Form not found"
            THEN task.reply.status = 404
            ELSE task.reply.result.success =>
                    (task.reply.status = 200 /\ task.reply.json.data = task.reply.result.data)

\* the half of it about a form that exists
C30_FoundStatus ==
    \A task \in Answered("GET") :
        (task.req.id # "" /\ task.reply.result.success) =>
            (task.reply.status = 200 /\ task.reply.json.data = task.reply.result.data)

\* validateFormData ran last: its report is about the selected form and the draft as they are
Validated == lastCall.kind = "validateFormData"

\* the selected form has one field, a required checkbox
OnlyRequiredCheckbox ==
    /\ selectedForm # Null
    /\ Len(selectedForm[1].fields) = 1
    /\ selectedForm[1].fields[1].type = "checkbox"
    /\ Has(selectedForm[1].fields[1], "required")
    /\ selectedForm[1].fields[1].required

\* the draft value is absent, is no array, or is an empty array
NothingChecked(value) == value.t # "array" \/ value.items = <<>>

(* C26: for a selected form whose only field is a required checkbox,        *)
(* validateFormData returns isValid = false with an errors mapping of       *)
(* exactly one key, the field's name, whenever the draft value of the field *)
(* is absent, is not an array, or is an empty array.                        *)
C26_RequiredCheckbox ==
    (Validated /\ OnlyRequiredCheckbox
        /\ NothingChecked(valueOf(formData, selectedForm[1].fields[1].name))) =>
            /\ ~lastCall.result.isValid
            /\ DOMAIN lastCall.result.errors = {selectedForm[1].fields[1].name}

\* a form whose only field is a required checkbox was validated with an empty array as draft
C26_Witness ==
    /\ Validated /\ OnlyRequiredCheckbox
    /\ valueOf(formData, selectedForm[1].fields[1].name) = Arr(<<>>)
    /\ ~lastCall.result.isValid
    /\ DOMAIN lastCall.result.errors = {selectedForm[1].fields[1].name}

\* a value that is absent
Absent(value) == value.t \in {"undefined", "null"}

\* the draft value is empty for the type of the field, in the words of the specification
EmptyFor(type, value) ==
    IF type = "checkbox" THEN ~(value.t = "array" /\ value.items # <<>>)
    ELSE IF type = "file" THEN Absent(value)
    ELSE Absent(value) \/ (value.t = "string" /\ trim(value.s) = "")

IsRequired(field) == Has(field, "required") /\ field.required

ReportedMissing(field) ==
    /\ Has(lastCall.result.errors, field.name)
    /\ lastCall.result.errors[field.name] = field.label \o " is required"

(* C27: validateFormData reports a 'required' error for a required field    *)
(* exactly when its draft value is empty for its type: not a non-empty      *)
(* array for a checkbox, null or absent for a file, absent or a string that *)
(* is empty after trimming for every other type; a required field that     *)
(* holds a provided value is never reported as missing.                     *)
C27_RequiredExactly ==
    (Validated /\ selectedForm # Null) =>
        \A i \in DOMAIN selectedForm[1].fields :
            LET field == selectedForm[1].fields[i]
            IN  IsRequired(field) =>
                    (ReportedMissing(field) <=> EmptyFor(field.type, valueOf(formData, field.name)))

\* the same for the required fields without validation rules whose draft is no number
C27_NoNumbers ==
    (Validated /\ selectedForm # Null) =>
        \A i \in DOMAIN selectedForm[1].fields :
            LET field == selectedForm[1].fields[i]
                value == valueOf(formData, field.name)
            IN  (IsRequired(field) /\ ~Has(field, "validation") /\ value.t # "number"
                    /\ (field.type = "file" => value.t # "string")) =>
                    (ReportedMissing(field) <=> EmptyFor(field.type, value))

\* the draft value breaks a declared bound of the field
OutOfBounds(field, value) ==
    LET val == field.validation
    IN  \/ /\ field.type = "number" /\ value.t = "number"
           /\ \/ Has(val, "min") /\ value.n < val.min
              \/ Has(val, "max") /\ value.n > val.max
        \/ /\ value.t = "string"
           /\ \/ Has(val, "minLength") /\ Len(value.s) < val.minLength
              \/ Has(val, "maxLength") /\ Len(value.s) > val.maxLength

(* C28: for every number-typed field with a declared validation.min or      *)
(* validation.max and every numeric draft value, 0 included, below min or   *)
(* above max, validateFormData returns isValid = false with an error under  *)
(* the field's name; likewise for every string draft value whose length is  *)
(* below minLength or above maxLength, a bound of 0 included.               *)
C28_Bounds ==
    (Validated /\ selectedForm # Null) =>
        \A i \in DOMAIN selectedForm[1].fields :
            LET field == selectedForm[1].fields[i]
                value == valueOf(formData, field.name)
            IN  (Has(field, "validation") /\ OutOfBounds(field, value)) =>
                    (~lastCall.result.isValid /\ Has(lastCall.result.errors, field.name))

\* the same for the draft values that are not falsy and the bounds that are not 0
C28_Truthy ==
    (Validated /\ selectedForm # Null) =>
        \A i \in DOMAIN selectedForm[1].fields :
            LET field == selectedForm[1].fields[i]
                value == valueOf(formData, field.name)
            IN  (/\ Has(field, "validation") /\ OutOfBounds(field, value)
                 /\ ~Falsy(value)
                 /\ Has(field.validation, "maxLength") => field.validation.maxLength # 0) =>
                    (~lastCall.result.isValid /\ Has(lastCall.result.errors, field.name))

\* the requests the handler answered, whatever their method
AnsweredAll == Answered("POST") \cup Answered("GET") \cup Answered("PUT") \cup Answered("DELETE")

(* C31: a request that carries an action parameter is dispatched to the     *)
(* matching field operation and to no other: PUT with action=addField calls *)
(* addField, PUT with action=updateField and fieldId calls updateField,     *)
(* DELETE with action=removeField and fieldId calls removeField; only the   *)
(* requests without action reach updateForm or deleteForm.                  *)
C31_Dispatch ==
    \A task \in AnsweredAll :
        /\ task.req.action # "" => task.reply.called = task.req.action
        /\ task.reply.called \in {"updateForm", "deleteForm"} => task.req.action = ""

\* the requests without action: PUT reaches updateForm, DELETE reaches deleteForm
C31_NoAction ==
    \A task \in AnsweredAll :
        task.req.action = "" =>
            /\ task.req.method = "PUT" => task.reply.called = "updateForm"
            /\ task.req.method = "DELETE" => task.reply.called = "deleteForm"

(* C32: for every request, when the repository operation it is dispatched   *)
(* to returns success = false (not found, validation failure, store         *)
(* failure), the status of the response is outside 2xx: 404 for a missing   *)
(* form on PUT and DELETE, 400 for a validation failure.                    *)
C32_FailureStatus ==
    \A task \in AnsweredAll :
        ~task.reply.result.success =>
            /\ task.reply.status \notin 200..299
            /\ (task.req.method \in {"PUT", "DELETE"}
                    /\ task.reply.result.message = "Form not found") => task.reply.status = 404

\* the same for POST alone
C32_PostFailure ==
    \A task \in Answered("POST") :
        ~task.reply.result.success => task.reply.status \notin 200..299

(* C33: for every HTTP verb, one invocation of the request handler calls    *)
(* exactly one repository operation and writes one response; handling a     *)
(* POST never also runs the GET branch.                                     *)
C33_OneOperation ==
    \A task \in AnsweredAll :
        /\ Len(invocation(task.req).calls) = 1
        /\ invocation(task.req).cases = <<task.req.method>>

\* the same for the verbs other than POST
C33_OtherVerbs ==
    \A task \in AnsweredAll :
        task.req.method # "POST" =>
            /\ invocation(task.req).calls = <<task.reply.called>>
            /\ invocation(task.req).cases = <<task.req.method>>

\* the cached form holds what the stored document holds
SameForm(form, stored) ==
    /\ Has(stored, "name") /\ form.name = stored.name
    /\ Has(stored, "pdfUrl") /\ form.pdfUrl = stored.pdfUrl
    /\ Fields(form) = Fields(stored)

(* C34: once every store action in flight on a form has resolved, the       *)
(* cached forms entry of that form equals the document stored on the        *)
(* server, also when the responses of two mutations issued one after the    *)
(* other arrive in the opposite order.                                      *)
C34_CacheMatchesServer ==
    tasks = <<>> =>
        \A i \in DOMAIN forms :
            /\ forms[i].id \in DOMAIN docs
            /\ SameForm(forms[i], docs[forms[i].id])

(* C35: in every reachable state of the client store the cached forms list  *)
(* holds at most one entry per form id, also when a createForm action and   *)
(* a loadForms action are in flight at the same time and resolve in either  *)
(* order.                                                                   *)
C35_OneEntryPerId ==
    \A i, j \in DOMAIN forms : forms[i].id = forms[j].id => i = j

\* the actions that set the loading flag
LoadingKinds == {"loadForms", "createForm", "updateForm", "deleteForm"}

(* C36: isFormLoading is true in every state in which at least one of       *)
(* loadForms, createForm, updateForm or deleteForm is in flight, also when  *)
(* two of these actions overlap and one resolves before the other.          *)
C36_LoadingWhileInFlight ==
    (\E t \in DOMAIN tasks : tasks[t].kind \in LoadingKinds) => isFormLoading

\* with one action in flight at most, the flag is true while it is in flight
C36_OneInFlight ==
    (Len(tasks) = 1 /\ started = 1 /\ tasks[1].kind \in LoadingKinds) => isFormLoading

\* no two fields of the sequence carry the same id
DistinctIds(fields) ==
    \A i, j \in DOMAIN fields :
        (Has(fields[i], "id") /\ Has(fields[j], "id") /\ fields[i].id = fields[j].id) => i = j

(* C37: in every state reachable through createForm, updateForm, addField,  *)
(* updateField and removeField the field ids within one stored form are     *)
(* pairwise distinct, also when callers supply their own field ids.         *)
C37_DistinctFieldIds == \A id \in DOMAIN docs : DistinctIds(Fields(docs[id]))

\* the ids the repository generates itself are never given to two fields of a form
C37_GeneratedIds ==
    \A id \in DOMAIN docs :
        \A i, j \in DOMAIN Fields(docs[id]) :
            LET a == Fields(docs[id])[i]
                b == Fields(docs[id])[j]
            IN  (/\ Has(a, "id") /\ Has(b, "id") /\ a.id = b.id
                 /\ a.id \in {GenId(n) : n \in 1..idSeq}) => i = j

\* the documents whose form getForms lists, asked for without paging
ListedIds == {ValidRows(Rows(NoCursor, DefaultLimit))[i].id :
                 i \in DOMAIN ValidRows(Rows(NoCursor, DefaultLimit))}

\* caller p's field operation succeeded and the document is stored as that call wrote it
FieldOpStands(p) ==
    /\ pc[p] = "done" /\ op[p].kind \in FieldKinds
    /\ res[p].success
    /\ op[p].formId \in DOMAIN docs
    /\ docs[op[p].formId] = post[p]

(* C38: after any successful addField, updateField or removeField on a form *)
(* created through createForm, getForm on the form's id still succeeds and  *)
(* the form still appears in the list of getForms; removing the only field  *)
(* of a form does not make the form unreadable.                             *)
C38_StillReadable ==
    \A p \in Procs :
        FieldOpStands(p) =>
            /\ getFormResult(GetDoc(op[p].formId)).success
            /\ op[p].formId \in ListedIds

\* the same for the calls that leave a field with a name, a label and a known type behind
C38_WhenFieldsRemain ==
    \A p \in Procs :
        (FieldOpStands(p) /\ PassesSchema(docs[op[p].formId])) =>
            /\ getFormResult(GetDoc(op[p].formId)).success
            /\ op[p].formId \in ListedIds

\* selectedFields holds no id twice
NoIdTwice == \A i, j \in DOMAIN selectedFields : selectedFields[i] = selectedFields[j] => i = j

(* C39: in every reachable state of the client store, selectedFields holds  *)
(* no id twice and every id in it is the id of a field of the current       *)
(* selectedForm; it is empty when no form is selected.                      *)
C39_SelectionWithinForm ==
    /\ NoIdTwice
    /\ selectedForm = Null => selectedFields = <<>>
    /\ selectedForm # Null =>
          \A i \in DOMAIN selectedFields : selectedFields[i] \in FieldIdsOf(selectedForm[1])

\* the part of it that holds: no id is selected twice, whatever actions settle in between
C39_NoIdTwice == (selectedFields # <<>>) => NoIdTwice

\* deleteMultipleFields has returned, resolved or rejected
BulkReturned == lastCall.kind = "deleteMultipleFields"

\* the cached entries of form id hold the field list the server stores for it
FieldsMatchServer(id) ==
    \A i \in DOMAIN forms :
        forms[i].id = id => (id \in DOMAIN docs /\ Fields(forms[i]) = Fields(docs[id]))

(* C40: when deleteMultipleFields(formId, fieldIds) returns, by success or  *)
(* by failure part-way through the list, the cached field list of form      *)
(* formId equals the field list stored on the server for that form.         *)
C40_BulkLeavesCacheInSync == BulkReturned => FieldsMatchServer(lastCall.task.req.id)

\* it does when the action resolves and no other action was started beside it
C40_WhenResolved ==
    (BulkReturned /\ lastCall.outcome.ok /\ started <= 2) =>
        FieldsMatchServer(lastCall.task.req.id)

====
